---- MODULE Spec2Model ----
(***************************************************************************)
(* Model of the Rabirubia marine forecast card generator                   *)
(* (scripts/generate_card.py).                                             *)
(*                                                                         *)
(* Text is modelled as TLA+ strings, i.e. sequences of characters; the     *)
(* regular expressions of the source are translated into operators that    *)
(* walk those sequences the way Python's backtracking matcher does.        *)
(***************************************************************************)
EXTENDS Integers, Sequences, FiniteSets, TLC

VARIABLES
    pc,          \* position of the run / of the function under study
    zones,       \* zone name -> zone record, the argument of get_advisories
    advisories,  \* list returned by get_advisories
    text,        \* bulletin text handed to parse_zone
    data,        \* record returned by parse_zone
    net,         \* url -> what a request to it meets: [ok, body]
    requests,    \* urls requested so far, in order
    synopsis,    \* string returned by fetch_synopsis
    elapsed,     \* now_utc - KNOWN_NEW_MOON, in steps of SYNODIC / MoonSteps
    moon,        \* calls of get_moon_phase so far: [elapsed, result], in order
    rain_pct,    \* string returned by fetch_rain_probability
    html,        \* document returned by build_html
    output,      \* the file at FIXED_OUTPUT
    temp,        \* temporary files of render_jpg that exist
    render,      \* what the call of render_jpg met and did
    exit_code    \* exit status of the process, NotExited while it runs

runVars == <<rain_pct, html, output, temp, render, exit_code>>

vars == <<pc, zones, advisories, text, data, net, requests, synopsis, elapsed, moon, runVars>>

NotExited == 0 - 1
NoFile == [exists |-> FALSE, bytes |-> 0, image |-> ""]

\* the variables of a run of main, while one function is studied alone
NoRun ==
    /\ rain_pct = ""
    /\ html = <<>>
    /\ output = NoFile
    /\ temp = {}
    /\ render = <<>>
    /\ exit_code = NotExited

-----------------------------------------------------------------------------
(* Characters and strings                                                  *)

\* s[i:i+1], the character at index i or "" past either end
At(s, i) == IF 1 <= i /\ i <= Len(s) THEN SubSeq(s, i, i) ELSE ""

UpperAlpha == "ABCDEFGHIJKLMNOPQRSTUVWXYZ"
LowerAlpha == "abcdefghijklmnopqrstuvwxyz"
DigitChars == "0123456789"
\* printable ASCII in code point order: 32 .. 95 and 97 .. 126
AsciiLow == " !\"#$%&'()*+,-./0123456789:;<=>?@" \o UpperAlpha \o "[\\]^_"
AsciiHigh == LowerAlpha \o "{|}~"

CharsOf(s) == {At(s, i) : i \in 1..Len(s)}
UpperSet == CharsOf(UpperAlpha)
LowerSet == CharsOf(LowerAlpha)
DigitSet == CharsOf(DigitChars)
SpaceSet == {" ", "\n", "\t", "\r", "\f"}

IsSpace(c) == c \in SpaceSet
IsDigit(c) == c \in DigitSet
\* stands for the dotless i (U+0131), the one letter outside ASCII that the
\* bulletins of the model carry, and only in advisory lines: a lower-case
\* letter whose capital is "I" and which a case-insensitive search takes for "i"
DotlessI == "|"

IsAlpha(c) == c \in UpperSet \/ c \in LowerSet \/ c = DotlessI
IsWordCh(c) == IsAlpha(c) \/ IsDigit(c) \/ c = "_"

LowerOf == [c \in UpperSet |-> At(LowerAlpha, CHOOSE i \in 1..26 : At(UpperAlpha, i) = c)]
UpperOf == [c \in LowerSet |-> At(UpperAlpha, CHOOSE i \in 1..26 : At(LowerAlpha, i) = c)]
LowerCh(c) == IF c \in UpperSet THEN LowerOf[c] ELSE c
UpperCh(c) == IF c \in LowerSet THEN UpperOf[c] ELSE IF c = DotlessI THEN "I" ELSE c

\* code point of a character (control characters sort below the space)
OrdOf == [c \in CharsOf(AsciiLow) \cup CharsOf(AsciiHigh) |->
             IF c \in CharsOf(AsciiLow)
             THEN 31 + CHOOSE i \in 1..Len(AsciiLow) : At(AsciiLow, i) = c
             ELSE 96 + CHOOSE i \in 1..Len(AsciiHigh) : At(AsciiHigh, i) = c]
Ord(c) == IF c \in DOMAIN OrdOf THEN OrdOf[c]
          ELSE IF c = "\t" THEN 9 ELSE IF c = "\n" THEN 10
          ELSE IF c = "\f" THEN 12 ELSE 13

RECURSIVE LowerRange(_, _, _)
LowerRange(s, lo, hi) ==
    IF lo > hi THEN ""
    ELSE IF lo = hi THEN LowerCh(At(s, lo))
    ELSE LET m == (lo + hi) \div 2
         IN LowerRange(s, lo, m) \o LowerRange(s, m + 1, hi)
\* str.lower()
Lower(s) == LowerRange(s, 1, Len(s))

RECURSIVE UpperRange(_, _, _)
UpperRange(s, lo, hi) ==
    IF lo > hi THEN ""
    ELSE IF lo = hi THEN UpperCh(At(s, lo))
    ELSE LET m == (lo + hi) \div 2
         IN UpperRange(s, lo, m) \o UpperRange(s, m + 1, hi)
\* str.upper()
Upper(s) == UpperRange(s, 1, Len(s))

RECURSIVE FoldRange(_, _, _)
FoldRange(s, lo, hi) ==
    IF lo > hi THEN ""
    ELSE IF lo = hi THEN (IF At(s, lo) = DotlessI THEN "i" ELSE LowerCh(At(s, lo)))
    ELSE LET m == (lo + hi) \div 2
         IN FoldRange(s, lo, m) \o FoldRange(s, m + 1, hi)
\* the text as a search with re.IGNORECASE compares it with a lower-case pattern
Fold(s) == FoldRange(s, 1, Len(s))

\* s[:n]
Prefix(s, n) == IF Len(s) <= n THEN s ELSE SubSeq(s, 1, n)

\* pat occurs in s at index i
MatchAt(s, i, pat) ==
    /\ i >= 1
    /\ i + Len(pat) - 1 <= Len(s)
    /\ SubSeq(s, i, i + Len(pat) - 1) = pat

RECURSIVE FindIn(_, _, _, _)
FindIn(s, pat, lo, hi) ==
    IF lo > hi THEN 0
    ELSE IF lo = hi THEN (IF MatchAt(s, lo, pat) THEN lo ELSE 0)
    ELSE LET m == (lo + hi) \div 2
             l == FindIn(s, pat, lo, m)
         IN IF l # 0 THEN l ELSE FindIn(s, pat, m + 1, hi)
\* least index >= from at which pat occurs in s, 0 when there is none
Find(s, pat, from) == FindIn(s, pat, from, Len(s) - Len(pat) + 1)
\* pat in s
Contains(s, pat) == Find(s, pat, 1) # 0

RECURSIVE FirstSpaceIn(_, _, _)
FirstSpaceIn(s, lo, hi) ==
    IF lo > hi THEN 0
    ELSE IF lo = hi THEN (IF IsSpace(At(s, lo)) THEN lo ELSE 0)
    ELSE LET m == (lo + hi) \div 2
             l == FirstSpaceIn(s, lo, m)
         IN IF l # 0 THEN l ELSE FirstSpaceIn(s, m + 1, hi)
RECURSIVE FirstNonSpaceIn(_, _, _)
FirstNonSpaceIn(s, lo, hi) ==
    IF lo > hi THEN 0
    ELSE IF lo = hi THEN (IF IsSpace(At(s, lo)) THEN 0 ELSE lo)
    ELSE LET m == (lo + hi) \div 2
             l == FirstNonSpaceIn(s, lo, m)
         IN IF l # 0 THEN l ELSE FirstNonSpaceIn(s, m + 1, hi)
RECURSIVE LastNonSpaceIn(_, _, _)
LastNonSpaceIn(s, lo, hi) ==
    IF lo > hi THEN 0
    ELSE IF lo = hi THEN (IF IsSpace(At(s, lo)) THEN 0 ELSE lo)
    ELSE LET m == (lo + hi) \div 2
             r == LastNonSpaceIn(s, m + 1, hi)
         IN IF r # 0 THEN r ELSE LastNonSpaceIn(s, lo, m)

\* index just past the whitespace run that starts at i (i itself when there is none): \s*
SkipSpace(s, i) ==
    LET j == FirstNonSpaceIn(s, i, Len(s)) IN IF j = 0 THEN Len(s) + 1 ELSE j
\* index just past the run of non-whitespace characters that starts at i
SkipNonSpace(s, i) ==
    LET j == FirstSpaceIn(s, i, Len(s)) IN IF j = 0 THEN Len(s) + 1 ELSE j

RECURSIVE FirstNonDigitIn(_, _, _)
FirstNonDigitIn(s, lo, hi) ==
    IF lo > hi THEN 0
    ELSE IF lo = hi THEN (IF IsDigit(At(s, lo)) THEN 0 ELSE lo)
    ELSE LET m == (lo + hi) \div 2
             l == FirstNonDigitIn(s, lo, m)
         IN IF l # 0 THEN l ELSE FirstNonDigitIn(s, m + 1, hi)
\* index just past the digit run that starts at i: \d*
SkipDigits(s, i) ==
    LET j == FirstNonDigitIn(s, i, Len(s)) IN IF j = 0 THEN Len(s) + 1 ELSE j

\* str.strip()
Strip(s) ==
    LET a == FirstNonSpaceIn(s, 1, Len(s))
        b == LastNonSpaceIn(s, 1, Len(s))
    IN IF a = 0 THEN "" ELSE SubSeq(s, a, b)

RECURSIVE CollapseRange(_, _, _)
CollapseRange(s, lo, hi) ==
    IF lo > hi THEN ""
    ELSE IF lo = hi
         THEN (IF ~IsSpace(At(s, lo)) THEN At(s, lo)
               ELSE IF lo > 1 /\ IsSpace(At(s, lo - 1)) THEN "" ELSE " ")
    ELSE LET m == (lo + hi) \div 2
         IN CollapseRange(s, lo, m) \o CollapseRange(s, m + 1, hi)
\* re.sub(r"\s+", " ", s)
Collapse(s) == CollapseRange(s, 1, Len(s))

RECURSIVE StrLessFrom(_, _, _)
StrLessFrom(a, b, i) ==
    IF i > Len(b) THEN FALSE
    ELSE IF i > Len(a) THEN TRUE
    ELSE IF At(a, i) = At(b, i) THEN StrLessFrom(a, b, i + 1)
    ELSE Ord(At(a, i)) < Ord(At(b, i))
\* a < b for Python strings: lexicographic by code point
StrLess(a, b) == StrLessFrom(a, b, 1)

RECURSIVE SortedSeq(_)
\* sorted(S) for a set of strings
SortedSeq(S) ==
    IF S = {} THEN <<>>
    ELSE LET m == CHOOSE x \in S : \A y \in S \ {x} : StrLess(x, y)
         IN <<m>> \o SortedSeq(S \ {m})

-----------------------------------------------------------------------------
(* Zone records                                                            *)

ZoneNames == {"atlantic", "north_pr", "east_pr", "caribbean"}

\* variant: the defaults of the earlier script
DefaultRecord_NA ==
    [wind |-> "N/A", gusts |-> "", seas |-> "N/A",
     wave_detail |-> "", advisory |-> "", precip |-> ""]

DefaultRecord ==
    [wind |-> "Check NWS", gusts |-> "", seas |-> "Check NWS",
     wave_detail |-> "", advisory |-> "", precip |-> ""]

-----------------------------------------------------------------------------
(* get_advisories                                                          *)

NoAdvisories == "No Active Advisories"

\* variant: the gale test placed before the small craft test
ClassifyAdvisory_GaleFirst(adv) ==
    LET low == Lower(adv)
    IN IF Contains(low, "gale") THEN "Gale Warning"
       ELSE IF Contains(low, "small craft") THEN "Small Craft Advisory"
       ELSE IF Contains(low, "storm") THEN "Storm Warning"
       ELSE IF Contains(low, "hurricane") THEN "Hurricane Force Wind Warning"
       ELSE adv

\* the if/elif chain applied to one non-empty advisory phrase
ClassifyAdvisory(adv) ==
    LET low == Lower(adv)
    IN IF Contains(low, "small craft") THEN "Small Craft Advisory"
       ELSE IF Contains(low, "gale") THEN "Gale Warning"
       ELSE IF Contains(low, "storm") THEN "Storm Warning"
       ELSE IF Contains(low, "hurricane") THEN "Hurricane Force Wind Warning"
       ELSE adv

\* variant: the "if adv:" guard dropped
FoundSet_NoGuard(zs) ==
    {IF zs[z].advisory = "" THEN NoAdvisories ELSE ClassifyAdvisory(zs[z].advisory) : z \in DOMAIN zs}

\* the set "found" after the loop over zones.values()
FoundSet(zs) ==
    {ClassifyAdvisory(zs[z].advisory) : z \in {y \in DOMAIN zs : zs[y].advisory # ""}}

\* variant: the labels collected in a list, neither deduplicated nor given a fallback
get_advisories_List(zs) ==
    LET order == <<"atlantic", "north_pr", "east_pr", "caribbean">>
        F[i \in 0..4] ==
            IF i = 0 THEN <<>>
            ELSE IF zs[order[i]].advisory = "" THEN F[i - 1]
                 ELSE Append(F[i - 1], ClassifyAdvisory(zs[order[i]].advisory))
    IN F[4]

get_advisories(zs) ==
    LET found == FoundSet(zs)
    IN IF found # {} THEN SortedSeq(found) ELSE <<NoAdvisories>>

-----------------------------------------------------------------------------
(* Specification of get_advisories as a function of the zone records       *)

\* advisory phrases a zone record may carry; "" is a zone without advisory
AdvisoryInputs ==
    {"",
     "Small Craft Advisory",
     "SMALL CRAFT ADVISORY IN EFFECT THROUGH FRIDAY EVENING",
     "Small Craft Advisory Until Gale Warning Begins",
     "Gale Warning In Effect",
     "Tropical Storm Warning",
     "Hurricane Force Wind Warning",
     "Dense Fog Advisory",
     "Rip Current Statement"}

InitAdvisories ==
    /\ pc = "adv_start"
    /\ zones \in [ZoneNames -> {[DefaultRecord EXCEPT !.advisory = a] : a \in AdvisoryInputs}]
    /\ advisories = <<>>
    /\ text = ""
    /\ data = DefaultRecord
    /\ net = <<>>
    /\ requests = <<>>
    /\ synopsis = ""
    /\ elapsed = 0
    /\ moon = <<>>
    /\ NoRun

GetAdvisories ==
    /\ pc = "adv_start"
    /\ advisories' = get_advisories(zones)
    /\ pc' = "adv_done"
    /\ UNCHANGED <<zones, text, data, net, requests, synopsis, elapsed, moon, runVars>>

NextAdvisories == GetAdvisories

SpecAdvisories == InitAdvisories /\ [][NextAdvisories]_vars

ElemsOf(seq) == {seq[i] : i \in 1..Len(seq)}
ZonesWithAdvisory == {z \in ZoneNames : zones[z].advisory # ""}

\* C1: whatever the zone records hold, the list returned by get_advisories is
\* never empty, holds no label twice and is in ascending lexicographic order.
C1_NonEmptyDedupSorted ==
    pc = "adv_done" =>
        /\ Len(advisories) >= 1
        /\ \A i, j \in 1..Len(advisories) : i # j => advisories[i] # advisories[j]
        /\ \A i \in 1..(Len(advisories) - 1) : StrLess(advisories[i], advisories[i + 1])

\* two zones carry different phrases of one category, a third another category
C1_Witness ==
    /\ pc = "adv_done"
    /\ zones["atlantic"].advisory = "Small Craft Advisory"
    /\ zones["north_pr"].advisory = "SMALL CRAFT ADVISORY IN EFFECT THROUGH FRIDAY EVENING"
    /\ zones["east_pr"].advisory = "Gale Warning In Effect"
    /\ zones["caribbean"].advisory = ""
    /\ advisories = <<"Gale Warning", "Small Craft Advisory">>

\* C2: the result is the one-element list ["No Active Advisories"] exactly when
\* no zone has a non-empty advisory, and the sentinel is absent otherwise.
C2_SentinelIffNoAdvisory ==
    pc = "adv_done" =>
        /\ (advisories = <<NoAdvisories>>) <=> (ZonesWithAdvisory = {})
        /\ ZonesWithAdvisory # {} => NoAdvisories \notin ElemsOf(advisories)

C2_Witness ==
    /\ pc = "adv_done"
    /\ ZonesWithAdvisory = {}
    /\ advisories = <<"No Active Advisories">>

C2_WitnessAbsent ==
    /\ pc = "adv_done"
    /\ ZonesWithAdvisory = {"caribbean"}
    /\ advisories = <<"Dense Fog Advisory">>

\* the categories in the order the claim gives them: <<needle, label>>
CategoryOrder ==
    << <<"small craft", "Small Craft Advisory">>,
       <<"gale", "Gale Warning">>,
       <<"storm", "Storm Warning">>,
       <<"hurricane", "Hurricane Force Wind Warning">> >>

\* label the claim assigns to a phrase: first applicable category, else the phrase
ClaimedLabel(adv) ==
    LET hits == {k \in 1..Len(CategoryOrder) : Contains(Lower(adv), CategoryOrder[k][1])}
    IN IF hits = {} THEN adv
       ELSE CategoryOrder[CHOOSE k \in hits : \A h \in hits : k <= h][2]

\* C3: each non-empty phrase is mapped, case-insensitively and by substring, to
\* the first applicable category in the order small craft, gale, storm,
\* hurricane; a phrase matching none is passed through unchanged.
C3_ClassifiesInPriorityOrder ==
    pc = "adv_done" =>
        /\ ZonesWithAdvisory # {} =>
               ElemsOf(advisories) = {ClaimedLabel(zones[z].advisory) : z \in ZonesWithAdvisory}
        /\ (\A z \in ZonesWithAdvisory : zones[z].advisory = "Small Craft Advisory Until Gale Warning Begins")
               /\ ZonesWithAdvisory # {}
               => advisories = <<"Small Craft Advisory">>
        /\ (\E z \in ZoneNames : /\ zones[z].advisory = "Small Craft Advisory"
                                 /\ ZonesWithAdvisory = {z})
               => advisories = <<"Small Craft Advisory">>

\* one zone with a phrase naming both small craft and gale, one upper-case
\* phrase, one hurricane phrase and one phrase of no category
C3_Witness ==
    /\ pc = "adv_done"
    /\ zones["atlantic"].advisory = "Small Craft Advisory Until Gale Warning Begins"
    /\ zones["north_pr"].advisory = "Hurricane Force Wind Warning"
    /\ zones["east_pr"].advisory = "Rip Current Statement"
    /\ zones["caribbean"].advisory = "Tropical Storm Warning"
    /\ advisories = <<"Hurricane Force Wind Warning", "Rip Current Statement",
                      "Small Craft Advisory", "Storm Warning">>

-----------------------------------------------------------------------------
(* parse_zone: advisory line and TODAY window                              *)

\* least non-zero member of a set of indices, 0 when there is none
FirstIndex(S) ==
    LET nz == S \ {0} IN IF nz = {} THEN 0 ELSE CHOOSE x \in nz : \A y \in nz : x <= y

\* least index >= from at which one of the patterns occurs in s
FindAny(s, pats, from) == FirstIndex({Find(s, p, from) : p \in pats})

\* index of the line break that ends the line holding index i (Len + 1 on the last line)
LineEnd(s, i) == LET j == Find(s, "\n", i) IN IF j = 0 THEN Len(s) + 1 ELSE j

RECURSIVE TitleRange(_, _, _)
TitleRange(s, lo, hi) ==
    IF lo > hi THEN ""
    ELSE IF lo = hi
         THEN (IF ~IsAlpha(At(s, lo)) THEN At(s, lo)
               ELSE IF IsAlpha(At(s, lo - 1)) THEN LowerCh(At(s, lo)) ELSE UpperCh(At(s, lo)))
    ELSE LET m == (lo + hi) \div 2
         IN TitleRange(s, lo, m) \o TitleRange(s, m + 1, hi)
\* str.title()
Title(s) == TitleRange(s, 1, Len(s))

AdvisoryPhrases == {"small craft advisory", "gale warning", "storm warning", "hurricane force"}

\* group(1) of the advisory search: the first hazard phrase with the rest of
\* its line, "" when the search finds nothing
AdvisoryMatch(t) ==
    LET i == FindAny(Fold(t), AdvisoryPhrases, 1)
    IN IF i = 0 THEN "" ELSE SubSeq(t, i, LineEnd(t, i) - 1)

TodayEndMarkers == {".tonight", ".wednesday night", ".thursday night", ".friday"}

\* first search: \.TODAY\.\.\.(.*?)(?=\.TONIGHT|...|\Z)
TodayDotted(t) ==
    LET low == Lower(t)
        i   == Find(low, ".today...", 1)
        cs  == i + 9
        j   == FindAny(low, TodayEndMarkers, cs)
        ce  == IF j = 0 THEN Len(t) + 1 ELSE j
    IN [found |-> i # 0, group |-> IF i = 0 THEN "" ELSE SubSeq(t, cs, ce - 1)]

\* index of the last line break in lo..hi, 0 when there is none
LastBreakIn(s, lo, hi) ==
    LET S == {k \in lo..hi : At(s, k) = "\n"}
    IN IF S = {} THEN 0 ELSE CHOOSE k \in S : \A h \in S : h <= k

RECURSIVE TodayLineStart(_, _)
\* start of group(1) for the leftmost match of TODAY\s*\n at or after from:
\* \s* is greedy, so the line break matched is the last one of the blank run
TodayLineStart(low, from) ==
    LET i == Find(low, "today", from)
        e == SkipSpace(low, i + 5)
        b == LastBreakIn(low, i + 5, e - 1)
    IN IF i = 0 THEN 0
       ELSE IF b # 0 THEN b + 1
       ELSE TodayLineStart(low, i + 1)

\* second search: TODAY\s*\n(.*?)(?=TONIGHT|\Z)
TodayLine(t) ==
    LET low == Lower(t)
        cs  == TodayLineStart(low, 1)
        j   == Find(low, "tonight", cs)
        ce  == IF j = 0 THEN Len(t) + 1 ELSE j
    IN [found |-> cs # 0, group |-> IF cs = 0 THEN "" ELSE SubSeq(t, cs, ce - 1)]

\* variant: the whole bulletin searched, no TODAY window
TodayBlock_WholeText(t) == Collapse(t)

\* the whitespace-collapsed text every later search runs on
TodayBlock(t) ==
    LET d == TodayDotted(t)
        l == TodayLine(t)
    IN Collapse(IF d.found THEN d.group
                ELSE IF l.found THEN l.group
                ELSE Prefix(t, 1000))

-----------------------------------------------------------------------------
(* Pattern steps.  A step takes the index p at which it starts and gives   *)
(* the index just past what it matched, or 0 when it fails; a step that    *)
(* starts from a failure (p = 0) fails.                                    *)

Advance(p, q) == IF p # 0 /\ q > p THEN q ELSE 0
OrElse(a, b) == IF a # 0 THEN a ELSE b
EndOr(j, end) == IF j = 0 THEN end ELSE j

\* \s+
Ws1(s, p) == Advance(p, SkipSpace(s, p))
\* \d+
Dig1(s, p) == Advance(p, SkipDigits(s, p))
\* a literal
Lit(s, p, pat) == IF p # 0 /\ MatchAt(s, p, pat) THEN p + Len(pat) ELSE 0
\* an optional character: c?
OptCh(s, p, c) == IF p = 0 THEN 0 ELSE IF At(s, p) = c THEN p + 1 ELSE p

-----------------------------------------------------------------------------
(* parse_zone: wind, gusts, seas                                           *)

DirWords == {"north", "south", "east", "west", "ne", "nw", "se", "sw"}
CompassLetters == {"n", "s", "e", "w"}

\* (?:North|South|East|West|NE|NW|SE|SW|[NSEW]+) against a lower-cased word
IsDirection(w) ==
    \/ w \in DirWords
    \/ w # "" /\ \A i \in 1..Len(w) : At(w, i) \in CompassLetters

\* a direction at p.  Whatever follows a direction in the pattern starts with
\* \s+, so the direction ends where the run of non-blank characters ends.
DirEnd(low, p) ==
    IF p # 0 /\ At(low, p) \in CompassLetters
            /\ IsDirection(SubSeq(low, p, SkipNonSpace(low, p) - 1))
    THEN SkipNonSpace(low, p)
    ELSE 0

\* \s+knots?
KnotsEnd(low, p) == OptCh(low, Lit(low, Ws1(low, p), "knot"), "s")

\* \s+to\s+
ToEnd(low, p) == Ws1(low, Lit(low, Ws1(low, p), "to"))

\* (?:\s+to\s+\d+)?\s+knots? after the first number
SpeedEnd(low, d) == OrElse(KnotsEnd(low, Dig1(low, ToEnd(low, d))), KnotsEnd(low, d))

\* \s+winds?\s+\d+(?:\s+to\s+\d+)?\s+knots?
WindTail(low, e) ==
    SpeedEnd(low, Dig1(low, Ws1(low, OptCh(low, Lit(low, Ws1(low, e), "wind"), "s"))))

\* (?:\s+to\s+DIRECTION)? and the rest, after the first direction
WindAfterDir(low, e1) == OrElse(WindTail(low, DirEnd(low, ToEnd(low, e1))), WindTail(low, e1))

\* the whole wind pattern tried at index i
WindAt(low, i) == WindAfterDir(low, DirEnd(low, i))

RECURSIVE WindFirstIn(_, _, _)
WindFirstIn(low, lo, hi) ==
    IF lo > hi THEN 0
    ELSE IF lo = hi THEN (IF WindAt(low, lo) # 0 THEN lo ELSE 0)
    ELSE LET m == (lo + hi) \div 2
             l == WindFirstIn(low, lo, m)
         IN IF l # 0 THEN l ELSE WindFirstIn(low, m + 1, hi)

WindGroup(block, low, i) == IF i = 0 THEN "" ELSE SubSeq(block, i, WindAt(low, i) - 1)

\* group(1) of the wind search on the block, "" when the search finds nothing
WindMatch(block, low) == WindGroup(block, low, WindFirstIn(low, 1, Len(low)))

RECURSIVE SubWindsFrom(_, _, _)
SubWindsFrom(s, low, from) ==
    LET k == Find(low, "wind", from)
    IN IF k = 0 THEN SubSeq(s, from, Len(s))
       ELSE SubSeq(s, from, EndOr(LastNonSpaceIn(low, from, k - 1), from - 1))
            \o " "
            \o SubWindsFrom(s, low, SkipSpace(low, OptCh(low, k + 4, "s")))
\* re.sub(r"\s*winds?\s*", " ", s, flags=re.IGNORECASE)
SubWinds(s) == SubWindsFrom(s, Lower(s), 1)

RECURSIVE SubKnotsFrom(_, _, _, _)
SubKnotsFrom(s, low, from, scan) ==
    LET k == Find(low, "knot", scan)
        n == EndOr(LastNonSpaceIn(low, from, k - 1), from - 1)
        e == OptCh(low, k + 4, "s")
    IN IF k = 0 THEN SubSeq(s, from, Len(s))
       ELSE IF n + 1 < k THEN SubSeq(s, from, n) \o " kt" \o SubKnotsFrom(s, low, e, e)
       ELSE SubKnotsFrom(s, low, from, k + 1)
\* re.sub(r"\s+knots?", " kt", s, flags=re.IGNORECASE)
SubKnots(s) == SubKnotsFrom(s, Lower(s), 1, 1)

\* data["wind"] computed from a match
WindValue(g) == SubKnots(Strip(SubWinds(Strip(g))))

\* (\d+)\s+knots? at n
GustNumberAt(low, n) == KnotsEnd(low, Dig1(low, n)) # 0

\* start of group(1) after "gusts?\s+": behind "up\s+to\s+" when the rest
\* matches from there, else at c
GustNumber(low, c, u) ==
    IF GustNumberAt(low, u) THEN u ELSE IF GustNumberAt(low, c) THEN c ELSE 0

\* gusts?\s+(?:up\s+to\s+)?(\d+)\s+knots? tried at index i: start of group(1)
GustAfterBlank(low, c) == GustNumber(low, c, ToEnd(low, Lit(low, c, "up")))
GustAt(low, i) == GustAfterBlank(low, Ws1(low, OptCh(low, Lit(low, i, "gust"), "s")))

RECURSIVE GustFrom(_, _)
GustTry(low, i, n) ==
    IF i = 0 THEN ""
    ELSE IF n # 0 THEN SubSeq(low, n, SkipDigits(low, n) - 1)
    ELSE GustFrom(low, i + 1)
GustAtFound(low, i) == GustTry(low, i, IF i = 0 THEN 0 ELSE GustAt(low, i))
\* group(1) of the gust search from index from, "" when it finds nothing
GustFrom(low, from) == GustAtFound(low, Find(low, "gust", from))
GustMatch(low) == GustFrom(low, 1)

\* \s+feet?
FeetAt(low, p) == Lit(low, Ws1(low, p), "fee") # 0

\* end of group(1), (\d+\s+to\s+\d+|\d+), when \s+feet? follows it
SeasRangeEnd(low, d, z) == IF FeetAt(low, z) THEN z ELSE IF FeetAt(low, d) THEN d ELSE 0
SeasGroupEnd(low, d) == SeasRangeEnd(low, d, Dig1(low, ToEnd(low, d)))

RECURSIVE SeasFrom(_, _, _)
SeasTry(block, low, i, c, z) ==
    IF i = 0 THEN ""
    ELSE IF z # 0 THEN SubSeq(block, c, z - 1)
    ELSE SeasFrom(block, low, i + 1)
SeasAfterBlank(block, low, i, c) == SeasTry(block, low, i, c, SeasGroupEnd(low, Dig1(low, c)))
SeasAt(block, low, i) ==
    SeasAfterBlank(block, low, i, Ws1(low, OptCh(low, Lit(low, i, "sea"), "s")))
\* group(1) of seas?\s+(\d+\s+to\s+\d+|\d+)\s+feet? searched from index from
SeasFrom(block, low, from) == SeasAt(block, low, Find(low, "sea", from))
SeasMatch(block, low) == SeasFrom(block, low, 1)

-----------------------------------------------------------------------------
(* parse_zone: wave detail and precipitation                               *)

WaveStops == {".", ";", "\n"}

RECURSIVE FirstStopIn(_, _, _)
FirstStopIn(s, lo, hi) ==
    IF lo > hi THEN 0
    ELSE IF lo = hi THEN (IF At(s, lo) \in WaveStops THEN lo ELSE 0)
    ELSE LET m == (lo + hi) \div 2
             l == FirstStopIn(s, lo, m)
         IN IF l # 0 THEN l ELSE FirstStopIn(s, m + 1, hi)

\* ([^.;\n]+) at c: the longest run without a stop character
WaveRun(s, c) == SubSeq(s, c, EndOr(FirstStopIn(s, c, Len(s)), Len(s) + 1) - 1)

\* last index in q..r at which the group can start
WaveLastStart(s, q, r) ==
    LET ok == {c \in q..r : c <= Len(s) /\ At(s, c) \notin WaveStops}
    IN IF ok = {} THEN 0 ELSE CHOOSE c \in ok : \A h \in ok : h <= c

\* start of group(1) once "[Ww]ave\s+[Dd]etail" has matched up to index p - 1:
\* ":?" and "\s*" are greedy and give characters back until one is left for
\* the group; 0 when the group cannot start anywhere
WaveGroupAfterColon(s, p, q) ==
    OrElse(WaveLastStart(s, q, SkipSpace(s, q)), IF q > p THEN p ELSE 0)
WaveGroupStart(s, p) == IF p = 0 THEN 0 ELSE WaveGroupAfterColon(s, p, OptCh(s, p, ":"))

\* [Ww]ave\s+[Dd]etail at i, where lower-cased "wave" stands: the search is
\* case-sensitive but for the two initials
WaveHeadEnd(s, low, i) == Lit(s, Lit(low, Ws1(s, Lit(s, i + 1, "ave")), "d"), "etail")

RECURSIVE WaveFrom(_, _, _)
WaveTry(s, low, i, g) ==
    IF i = 0 THEN [found |-> FALSE, group |-> ""]
    ELSE IF g # 0 THEN [found |-> TRUE, group |-> WaveRun(s, g)]
    ELSE WaveFrom(s, low, i + 1)
WaveAt(s, low, i) ==
    WaveTry(s, low, i, IF i = 0 THEN 0 ELSE WaveGroupStart(s, WaveHeadEnd(s, low, i)))
\* group(1) of [Ww]ave\s+[Dd]etail:?\s*([^.;\n]+) searched from index from
WaveFrom(s, low, from) == WaveAt(s, low, Find(low, "wave", from))
WaveMatch(block, low) == WaveFrom(block, low, 1)

RECURSIVE SplitAndFrom(_, _, _, _)
SplitAndFrom(s, low, from, scan) ==
    LET k == Find(low, "and", scan)
        n == EndOr(LastNonSpaceIn(low, from, k - 1), from - 1)
        e == Ws1(low, k + 3)
    IN IF k = 0 THEN <<SubSeq(s, from, Len(s))>>
       ELSE IF n + 1 < k /\ e # 0 THEN <<SubSeq(s, from, n)>> \o SplitAndFrom(s, low, e, e)
       ELSE SplitAndFrom(s, low, from, k + 1)
\* re.split(r"\s+and\s+", s, flags=re.IGNORECASE)
SplitAnd(s) == SplitAndFrom(s, Lower(s), 1, 1)

RECURSIVE FirstNonWordIn(_, _, _)
FirstNonWordIn(s, lo, hi) ==
    IF lo > hi THEN 0
    ELSE IF lo = hi THEN (IF IsWordCh(At(s, lo)) THEN 0 ELSE lo)
    ELSE LET m == (lo + hi) \div 2
             l == FirstNonWordIn(s, lo, m)
         IN IF l # 0 THEN l ELSE FirstNonWordIn(s, m + 1, hi)
\* index just past the run of word characters that starts at i: \w*
SkipWord(s, i) == EndOr(FirstNonWordIn(s, i, Len(s)), Len(s) + 1)

WaveDirs ==
    [north |-> "N", south |-> "S", east |-> "E", west |-> "W",
     northeast |-> "NE", northwest |-> "NW", southeast |-> "SE", southwest |-> "SW"]

\* variant: the table looked up with the word as written
WaveAbbrev_CaseSensitive(w) ==
    IF w \in DOMAIN WaveDirs THEN WaveDirs[w] ELSE Prefix(Upper(w), 2)

\* dirs.get(w.lower(), w.upper()[:2])
WaveAbbrev(w) ==
    IF Lower(w) \in DOMAIN WaveDirs THEN WaveDirs[Lower(w)] ELSE Prefix(Upper(w), 2)

\* re.match(r"(\w+)\s+(\d+)\s+feet?\s+at\s+(\d+)\s+seconds?", p) on a
\* lower-cased, stripped segment: where the groups start and end
SegWordEnd(low) == Advance(1, SkipWord(low, 1))
SegFeetStart(low) == Ws1(low, SegWordEnd(low))
SegFeetEnd(low) == Dig1(low, SegFeetStart(low))
SegSecsStart(low) ==
    Ws1(low, Lit(low, Ws1(low, OptCh(low, Lit(low, Ws1(low, SegFeetEnd(low)), "fee"), "t")), "at"))
SegSecsEnd(low) == Dig1(low, SegSecsStart(low))
SegMatches(low) == Lit(low, Ws1(low, SegSecsEnd(low)), "second") # 0

\* the string appended for a segment that matches
SegShort(p, low) ==
    WaveAbbrev(SubSeq(p, 1, SegWordEnd(low) - 1))
    \o " " \o SubSeq(p, SegFeetStart(low), SegFeetEnd(low) - 1)
    \o "ft@" \o SubSeq(p, SegSecsStart(low), SegSecsEnd(low) - 1) \o "s"

\* what the loop body appends to "out" for one stripped part: 0 or 1 strings
WaveSegmentOf(p, low) ==
    IF SegMatches(low) THEN <<SegShort(p, low)>>
    ELSE IF p # "" THEN <<p>>
    ELSE <<>>
WaveSegmentStripped(p) == WaveSegmentOf(p, Lower(p))
WaveSegment(part) == WaveSegmentStripped(Strip(part))

RECURSIVE WaveOut(_, _)
WaveOut(parts, i) ==
    IF i > Len(parts) THEN <<>> ELSE WaveSegment(parts[i]) \o WaveOut(parts, i + 1)

RECURSIVE JoinFrom(_, _, _)
JoinFrom(sep, items, i) ==
    IF i > Len(items) THEN ""
    ELSE IF i = Len(items) THEN items[i]
    ELSE items[i] \o sep \o JoinFrom(sep, items, i + 1)
\* sep.join(items)
Join(sep, items) == JoinFrom(sep, items, 1)

\* data["wave_detail"] computed from group(1)
WaveValue(g) == Join(" + ", WaveOut(SplitAnd(Strip(g)), 1))

\* variant: the keyword order of the earlier script
PrecipKeywords_ShowersFirst ==
    <<"showers", "rain", "thunderstorm", "sunny", "partly cloudy", "cloudy", "clear">>

PrecipKeywords ==
    <<"thunderstorm", "showers", "rain", "sunny", "partly cloudy", "cloudy", "clear">>

\* index of the keyword the loop breaks on, 0 when no keyword is in the block
FirstKeyword(low) ==
    FirstIndex({k \in 1..Len(PrecipKeywords) : Contains(low, PrecipKeywords[k])})

PrecipMax == 90

RECURSIVE SentenceFrom(_, _, _, _)
\* group(1) of ([^.]*kw[^.]*\.): the leftmost period-terminated sentence that
\* holds kw, "" when the search finds nothing.  start is the index after the
\* previous period.
SentenceFrom(s, low, kw, start) ==
    LET d == Find(s, ".", start)
        k == Find(low, kw, start)
    IN IF d = 0 \/ k = 0 THEN ""
       ELSE IF k + Len(kw) - 1 < d THEN SubSeq(s, start, d)
       ELSE SentenceFrom(s, low, kw, d + 1)

PrecipOf(block, low, k) ==
    IF k = 0 THEN ""
    ELSE Prefix(Strip(SentenceFrom(block, low, PrecipKeywords[k], 1)), PrecipMax)
\* data["precip"]
PrecipValue(block, low) == PrecipOf(block, low, FirstKeyword(low))

-----------------------------------------------------------------------------
(* parse_zone                                                              *)

WindField(wm) == IF wm # "" THEN WindValue(wm) ELSE DefaultRecord.wind
GustsField(gm) == IF gm # "" THEN "Gusts to " \o gm \o " kt" ELSE DefaultRecord.gusts
SeasField(sm) == IF sm # "" THEN sm \o " ft" ELSE DefaultRecord.seas
WaveField(wave) == IF wave.found THEN WaveValue(wave.group) ELSE DefaultRecord.wave_detail
AdvisoryField(adv) == IF adv # "" THEN Title(Strip(adv)) ELSE DefaultRecord.advisory

\* the record filled from the bulletin t and its block
ParseBlock(t, block, low) ==
    [wind        |-> WindField(WindMatch(block, low)),
     gusts       |-> GustsField(GustMatch(low)),
     seas        |-> SeasField(SeasMatch(block, low)),
     wave_detail |-> WaveField(WaveMatch(block, low)),
     advisory    |-> AdvisoryField(AdvisoryMatch(t)),
     precip      |-> PrecipValue(block, low)]

ParseIn(t, block) == ParseBlock(t, block, Lower(block))

parse_zone(t) == IF t = "" THEN DefaultRecord ELSE ParseIn(t, TodayBlock(t))

-----------------------------------------------------------------------------
(* Specification of parse_zone as a function of the bulletin text          *)

\* text that may precede the TODAY section: nothing, a zone header with an
\* advisory line, a header with a forecast phrase of its own
BulletinHeaders ==
    <<"",
      "AMZ711-012100-\nAtlantic Waters of Puerto Rico\n\n...SMALL CRAFT ADVISORY IN EFFECT THROUGH MONDAY AFTERNOON...\n\n",
      "Coastal waters forecast\ngale warning in effect until 6 pm ast\nOutlook: South winds 30 knots. Seas 12 feet. Rain.\n\n">>

\* section markers around the TODAY text: dotted, on a line of their own, none
BulletinMarkers ==
    <<[open |-> ".TODAY...", close |-> "\n.TONIGHT...West winds 5 knots. Seas 1 feet. Cloudy.\n$$\n"],
      [open |-> "Today \n\n", close |-> "\nTonight\nWest winds 5 knots.\n"],
      [open |-> "", close |-> ""]>>

WindDirs ==
    {"North",
     "South",
     "East",
     "West",
     "Northeast",
     "Northwest",
     "Southeast",
     "Southwest",
     "NE",
     "NW",
     "SE",
     "SW",
     "N",
     "E to NE",
     "East to Southeast",
     "Variable"}

WindSpeeds ==
    {"10 knots",
     "15 to 20 knots"}

WindPhrases ==
    {d \o " winds " \o sp \o "." : d \in WindDirs, sp \in WindSpeeds} \cup
    {"",
     "Winds Northeast 15 to 20 knots.",
     "East wind 1 knot.",
     "East winds 10 knots with gusts up to 25 knots.",
     "South winds 20 to 25 knots, gusts 35 knots."}

SeaPhrases ==
    {"",
     "Seas 6 to 8 feet.",
     "Seas 3 feet.",
     "Seas around 2 feet.",
     "Seas 4 to 6 feet. Wave Detail: East 5 feet at 6 seconds and Northwest 2 feet at 11 seconds.",
     "Seas 2 feet. Wave detail: east 4 feet at 5 seconds.",
     "Wave Detail: Swell 3 feet at 9 seconds and mixed swell.",
     "Wave Detail: SOUTHEAST 1 foot at 4 seconds and E 2 feet at 10 seconds; choppy.",
     "Wave Detail: East 5 feet at 6 seconds or more and North 2 feet at 9 seconds.",
     "WAVE DETAIL: East 5 feet at 6 seconds.",
     "Wave Detail:"}

LongRain ==
    "Periods of rain with locally heavy downpours expected across the offshore waters through the late afternoon hours."

PrecipPhrases ==
    {"",
     "Scattered showers.",
     "Isolated thunderstorms and showers.",
     "Mostly sunny. Chance of rain.",
     "Partly cloudy",
     "Mostly clear. Showers likely",
     "Cloudy. Isolated Thunderstorms late.",
     "Showers early. Thunderstorms late.",
     LongRain}

RECURSIVE Repeat(_, _)
Repeat(s, n) == IF n = 0 THEN "" ELSE s \o Repeat(s, n - 1)

\* 1000 characters of header lines without any forecast phrase
Filler == Repeat("AMZ711 coastal waters of northern Puerto Rico AST\n", 20)

\* bulletins whose phrases lie on both sides of a section marker or of the
\* 1000th character
WindowInputs ==
    {".TODAY...Seas 3 feet.\n.TONIGHT...East winds 10 knots with gusts up to 30 knots. Showers.\n",
     ".TODAY...Seas 3 feet.\n.WEDNESDAY NIGHT...East winds 10 knots.\n",
     "Outlook: North winds 25 knots.\n.Today...Partly cloudy.\n.Thursday Night...Seas 9 feet.\n",
     "East winds 10 knots. Wave Detail: East 5 feet at 6 seconds.\n.TODAY...Seas 3 feet.\n.FRIDAY...Showers.\n",
     ".TODAY...Seas 3 feet.\n.SATURDAY NIGHT...East winds 10 knots.\n",
     "TODAY\nSeas 3 feet.\nTONIGHT\nEast winds 10 knots. Rain.\n",
     "TODAY\nSeas 3 feet.\n.FRIDAY...East winds 10 knots.\n",
     "Gusts up to 40 knots.\nToday  \n\nSunny. East winds 5 knots.\nTonight\nSeas 3 feet.\n",
     Filler \o "East winds 10 knots. Seas 3 feet. Showers.",
     "Seas 3 feet.\n" \o Filler \o "East winds 10 knots.",
     Prefix(Filler, 990) \o " East winds 10 knots. Clear.",
     Prefix(Filler, 980) \o "East winds 10 knots. Seas 2 feet.",
     Prefix(Filler, 981) \o "East winds 10 knots. Seas 2 feet."}

\* one bulletin: header, opening marker, the non-empty phrases separated by a
\* blank, closing marker and the following section
Compose(h, m, w, s, p) ==
    h \o m.open \o Join(" ", SelectSeq(<<w, s, p>>, LAMBDA x : x # "")) \o m.close

BulletinInputs ==
    {Compose("", BulletinMarkers[m], w, "Seas 6 to 8 feet.", "Scattered showers.") :
        w \in WindPhrases, m \in {1, 3}}
    \cup
    {Compose(BulletinHeaders[h], BulletinMarkers[m], "East winds 15 knots.", s, "") :
        s \in SeaPhrases, m \in {1, 2, 3}, h \in {1, 2}}
    \cup
    {Compose(BulletinHeaders[h], BulletinMarkers[m], "", s, p) :
        p \in PrecipPhrases, m \in {1, 2, 3}, h \in {1, 3}, s \in {"", "Seas 6 to 8 feet."}}
    \cup
    WindowInputs
    \cup
    {"", "garbage"}

InitParse ==
    /\ pc = "parse_start"
    /\ text \in BulletinInputs
    /\ data = DefaultRecord
    /\ zones = [z \in ZoneNames |-> DefaultRecord]
    /\ advisories = <<>>
    /\ net = <<>>
    /\ requests = <<>>
    /\ synopsis = ""
    /\ elapsed = 0
    /\ moon = <<>>
    /\ NoRun

ParseZone ==
    /\ pc = "parse_start"
    /\ data' = parse_zone(text)
    /\ pc' = "parsed"
    /\ UNCHANGED <<text, zones, advisories, net, requests, synopsis, elapsed, moon, runVars>>

NextParse == ParseZone

SpecParse == InitParse /\ [][NextParse]_vars

RecordFields == {"wind", "gusts", "seas", "wave_detail", "advisory", "precip"}

\* the block parse_zone searched for the bulletin of the current state
Block == TodayBlock(text)

\* C4: for every bulletin text, the empty one and ones without any match
\* included, parse_zone returns a record with all six fields, and a field whose
\* pattern found nothing keeps its default: "Check NWS" for wind and seas, ""
\* for gusts, wave_detail, advisory and precip.
C4_CompleteRecordWithDefaults ==
    pc = "parsed" =>
        /\ DOMAIN data = RecordFields
        /\ \A f \in RecordFields : data[f] \in STRING
        /\ (text = "" \/ WindMatch(Block, Lower(Block)) = "") => data.wind = "Check NWS"
        /\ (text = "" \/ GustMatch(Lower(Block)) = "") => data.gusts = ""
        /\ (text = "" \/ SeasMatch(Block, Lower(Block)) = "") => data.seas = "Check NWS"
        /\ (text = "" \/ ~WaveMatch(Block, Lower(Block)).found) => data.wave_detail = ""
        /\ (text = "" \/ AdvisoryMatch(text) = "") => data.advisory = ""
        /\ (\A k \in 1..Len(PrecipKeywords) : ~Contains(Lower(text), PrecipKeywords[k]))
               => data.precip = ""
        /\ ~Contains(Lower(text), "knot") => data.wind = "Check NWS" /\ data.gusts = ""
        /\ ~Contains(Lower(text), "fee") => data.seas = "Check NWS"
        /\ ~Contains(Lower(text), "detail") => data.wave_detail = ""

\* a bulletin in which no pattern matches
C4_Witness ==
    /\ pc = "parsed"
    /\ text = "garbage"
    /\ data = [wind |-> "Check NWS", gusts |-> "", seas |-> "Check NWS",
               wave_detail |-> "", advisory |-> "", precip |-> ""]

\* a bulletin in which some patterns match and the others do not
C4_WitnessPartial ==
    /\ pc = "parsed"
    /\ data.wind = "Check NWS"
    /\ data.seas = "6 to 8 ft"
    /\ data.gusts = ""
    /\ data.precip # ""

\* the eight compass words and their abbreviations
CompassWords ==
    {"North", "South", "East", "West", "Northeast", "Northwest", "Southeast", "Southwest",
     "N", "S", "E", "W", "NE", "NW", "SE", "SW"}

\* speed phrase -> the same with "knots" abbreviated
SpeedKt == [s \in WindSpeeds |-> SubSeq(s, 1, Len(s) - 5) \o "kt"]

\* the phrase "d winds sp" opens the block or a sentence of the block
HasWindPhrase(block, d, sp) ==
    \E i \in 1..Len(block) :
        /\ MatchAt(block, i, d \o " winds " \o sp)
        /\ i = 1 \/ MatchAt(block, i - 2, ". ")

\* C5: a wind phrase in the TODAY window whose direction is one of the eight
\* compass words or their abbreviations and whose speed is "N" or "N to M"
\* knots is stored as that whole direction, the speed and "kt"; the phrase
\* "Northeast winds 15 to 20 knots" gives exactly "Northeast 15 to 20 kt".
C5_WholeDirectionKept ==
    pc = "parsed" =>
        /\ \A d \in CompassWords, sp \in WindSpeeds :
               HasWindPhrase(Block, d, sp) => data.wind = d \o " " \o SpeedKt[sp]
        /\ HasWindPhrase(Block, "Northeast", "15 to 20 knots")
               => data.wind = "Northeast 15 to 20 kt"

\* the part of C5 the code satisfies: directions made of a single compass
\* word or of compass letters
C5_SimpleDirectionKept ==
    pc = "parsed" =>
        \A d \in {"North", "South", "East", "West", "N", "NE", "NW", "SE", "SW"}, sp \in WindSpeeds :
            HasWindPhrase(Block, d, sp) => data.wind = d \o " " \o SpeedKt[sp]

C5_WitnessEast ==
    /\ pc = "parsed"
    /\ HasWindPhrase(Block, "East", "15 to 20 knots")
    /\ data.wind = "East 15 to 20 kt"

\* the state that refutes C5: the direction loses its first half
C5_WitnessNortheast ==
    /\ pc = "parsed"
    /\ HasWindPhrase(Block, "Northeast", "15 to 20 knots")
    /\ data.wind = "east 15 to 20 kt"

RECURSIVE TokensFrom(_, _)
TokensFrom(s, from) ==
    LET j == Find(s, " ", from)
    IN IF from > Len(s) THEN <<>>
       ELSE IF j = 0 THEN <<SubSeq(s, from, Len(s))>>
       ELSE IF j = from THEN TokensFrom(s, from + 1)
       ELSE <<SubSeq(s, from, j - 1)>> \o TokensFrom(s, j + 1)
\* the blank-separated words of a whitespace-collapsed string
Tokens(s) == TokensFrom(s, 1)

RECURSIVE SegmentsFrom(_, _, _)
\* the word lists between the words "and"; cur is the segment being collected
SegmentsFrom(toks, i, cur) ==
    IF i > Len(toks) THEN <<cur>>
    ELSE IF Lower(toks[i]) = "and" THEN <<cur>> \o SegmentsFrom(toks, i + 1, <<>>)
    ELSE SegmentsFrom(toks, i + 1, Append(cur, toks[i]))
Segments(s) == IF Tokens(s) = <<>> THEN <<>> ELSE SegmentsFrom(Tokens(s), 1, <<>>)

AllDigits(w) == w # "" /\ \A i \in 1..Len(w) : IsDigit(At(w, i))
AllWordChars(w) == w # "" /\ \A i \in 1..Len(w) : IsWordCh(At(w, i))

\* the segment begins with "WORD N feet at M seconds"
BeginsWithWaveForm(seg) ==
    /\ Len(seg) >= 6
    /\ AllWordChars(seg[1])
    /\ AllDigits(seg[2])
    /\ Lower(seg[3]) \in {"feet", "fee"}
    /\ Lower(seg[4]) = "at"
    /\ AllDigits(seg[5])
    /\ MatchAt(Lower(seg[6]), 1, "second")

\* the segment is "WORD N feet at M seconds" and nothing else
IsWaveForm(seg) ==
    /\ BeginsWithWaveForm(seg)
    /\ Len(seg) = 6
    /\ Lower(seg[6]) \in {"second", "seconds"}

ClaimedAbbrevTable ==
    << <<"north", "N">>, <<"south", "S">>, <<"east", "E">>, <<"west", "W">>,
       <<"northeast", "NE">>, <<"northwest", "NW">>, <<"southeast", "SE">>,
       <<"southwest", "SW">> >>

ClaimedAbbrev(w) ==
    LET hits == {k \in 1..Len(ClaimedAbbrevTable) : ClaimedAbbrevTable[k][1] = Lower(w)}
    IN IF hits = {} THEN Upper(Prefix(w, 2)) ELSE ClaimedAbbrevTable[CHOOSE k \in hits : TRUE][2]

ShortWave(seg) == ClaimedAbbrev(seg[1]) \o " " \o seg[2] \o "ft@" \o seg[5] \o "s"

\* wave_detail as C6 states it: only segments that are of the form are rewritten
ClaimedWaveStrict(g) ==
    LET segs == Segments(Strip(g))
    IN Join(" + ", [i \in 1..Len(segs) |->
                       IF IsWaveForm(segs[i]) THEN ShortWave(segs[i]) ELSE Join(" ", segs[i])])

\* wave_detail as amended: segments that begin with the form are rewritten
ClaimedWavePrefix(g) ==
    LET segs == Segments(Strip(g))
    IN Join(" + ", [i \in 1..Len(segs) |->
                       IF BeginsWithWaveForm(segs[i]) THEN ShortWave(segs[i]) ELSE Join(" ", segs[i])])

\* C6: the wave-detail text is split at the word "and"; every segment of the
\* form "DIRECTION N feet at M seconds" becomes "{abbrev} {N}ft@{M}s" (table
\* abbreviation, else the first two letters upper-cased), every other segment
\* is kept verbatim, and the results are joined with " + " in order.
C6_SegmentsOfTheFormRewritten ==
    pc = "parsed" /\ text # "" /\ WaveMatch(Block, Lower(Block)).found =>
        data.wave_detail = ClaimedWaveStrict(WaveMatch(Block, Lower(Block)).group)

\* C6 as amended: every segment that begins with "WORD N feet at M seconds" is
\* rewritten and whatever follows "seconds" in that segment is dropped; the
\* other segments are kept verbatim; the results are joined with " + " in order.
C6_SegmentsBeginningWithTheFormRewritten ==
    pc = "parsed" /\ text # "" =>
        /\ WaveMatch(Block, Lower(Block)).found =>
               data.wave_detail = ClaimedWavePrefix(WaveMatch(Block, Lower(Block)).group)
        /\ Contains(Block, "Wave Detail: East 5 feet at 6 seconds and Northwest 2 feet at 11 seconds.")
               => data.wave_detail = "E 5ft@6s + NW 2ft@11s"

C6_Witness ==
    /\ pc = "parsed"
    /\ Contains(Block, "Wave Detail: East 5 feet at 6 seconds and Northwest 2 feet at 11 seconds.")
    /\ data.wave_detail = "E 5ft@6s + NW 2ft@11s"

\* an unlisted word and a segment of another form
C6_WitnessVerbatim ==
    /\ pc = "parsed"
    /\ Contains(Block, "Wave Detail: Swell 3 feet at 9 seconds and mixed swell.")
    /\ data.wave_detail = "SW 3ft@9s + mixed swell"

\* the state that refutes C6 as stated: text after "seconds" is lost
C6_WitnessDropped ==
    /\ pc = "parsed"
    /\ Contains(Block, "Wave Detail: East 5 feet at 6 seconds or more and North 2 feet at 9 seconds.")
    /\ data.wave_detail = "E 5ft@6s + N 2ft@9s"

ClaimedKeywordOrder ==
    <<"thunderstorm", "showers", "rain", "sunny", "partly cloudy", "cloudy", "clear">>

Periods(s) == {i \in 1..Len(s) : At(s, i) = "."}

\* index after the period that precedes index b
SentenceStart(s, b) ==
    LET before == {i \in Periods(s) : i < b}
    IN IF before = {} THEN 1 ELSE 1 + CHOOSE i \in before : \A h \in before : h <= i

\* the periods that end a sentence holding kw
SentencesWith(s, kw) ==
    {b \in Periods(s) : Contains(Lower(SubSeq(s, SentenceStart(s, b), b)), kw)}

\* C7: precip comes only from the first keyword, in the order thunderstorm,
\* showers, rain, sunny, partly cloudy, cloudy, clear, that occurs in the today
\* block: it is the first sentence (up to its period) holding that keyword, cut
\* to 90 characters; no keyword of lower priority is used, also when the first
\* keyword stands in no period-terminated sentence.
C7_PrecipFromFirstKeyword ==
    pc = "parsed" =>
        LET present == {k \in 1..Len(ClaimedKeywordOrder) :
                            Contains(Lower(Block), ClaimedKeywordOrder[k])}
            kw      == ClaimedKeywordOrder[CHOOSE k \in present : \A h \in present : k <= h]
            ends    == SentencesWith(Block, kw)
            b       == CHOOSE e \in ends : \A h \in ends : e <= h
        IN /\ Len(data.precip) <= 90
           /\ present = {} => data.precip = ""
           /\ present # {} /\ ends = {} => data.precip = ""
           /\ present # {} /\ ends # {} =>
                  data.precip = Prefix(Strip(SubSeq(Block, SentenceStart(Block, b), b)), 90)

\* "sunny" comes first in the text, "rain" first in the order
C7_Witness ==
    /\ pc = "parsed"
    /\ Contains(Block, "Mostly sunny. Chance of rain.")
    /\ data.precip = "Chance of rain."

\* a sentence of more than 90 characters
C7_WitnessCut ==
    /\ pc = "parsed"
    /\ Contains(Block, LongRain)
    /\ Len(LongRain) > 90
    /\ data.precip = SubSeq(LongRain, 1, 90)

\* the first keyword stands in no period-terminated sentence
C7_WitnessNoSentence ==
    /\ pc = "parsed"
    /\ Block = "Mostly clear. Showers likely"
    /\ data.precip = ""

-----------------------------------------------------------------------------
(* fetch_url and fetch_synopsis                                            *)

NWS_COMBINED_URL == "https://tgftp.nws.noaa.gov/data/raw/fz/fzca52.tjsj.cwf.sju.txt"
NWS_SYNOPSIS_URL == "https://tgftp.nws.noaa.gov/data/forecasts/marine/coastal/am/amz711.txt"

\* fetch_url(url) for text: the body, "" when the request raises
fetch_url(n, url) == IF n[url].ok THEN n[url].body ELSE ""

\* variant: a failed request is made a second time
FetchAttempts_Retry(n, url) == IF n[url].ok THEN <<url>> ELSE <<url, url>>

\* the requests one call of fetch_url makes: urlopen is called once
FetchAttempts(n, url) == <<url>>

\* (?=\n\.[A-Z]|\$\$|\Z) at j, under re.IGNORECASE
MarkerStop(low, j) ==
    \/ MatchAt(low, j, "\n.") /\ IsAlpha(At(low, j + 2))
    \/ MatchAt(low, j, "$$")
    \/ j = Len(low) + 1

\* (?=\n[A-Z]{3}[0-9]|\$\$|\nAMZ|\Z) at j, under re.IGNORECASE
LineStop(low, j) ==
    \/ /\ At(low, j) = "\n"
       /\ \A k \in 1..3 : IsAlpha(At(low, j + k))
       /\ IsDigit(At(low, j + 4))
    \/ MatchAt(low, j, "$$")
    \/ MatchAt(low, j, "\namz")
    \/ j = Len(low) + 1

NoGroup == [found |-> FALSE, group |-> ""]

\* (.+?) from c followed by the lookahead: the lazy group takes one character
\* and then grows until the lookahead holds
MarkerGroup(t, low, c) ==
    IF c = 0 \/ c > Len(t) THEN NoGroup
    ELSE [found |-> TRUE,
          group |-> SubSeq(t, c, FirstIndex({j \in c + 1..Len(t) + 1 : MarkerStop(low, j)}) - 1)]

\* re.search(r"\.SYNOPSIS\.\.\.(.+?)(?=\n\.[A-Z]|\$\$|\Z)", text, DOTALL | IGNORECASE)
MarkerMatch(t, low) == MarkerGroup(t, low, Lit(low, Find(low, ".synopsis...", 1), ".synopsis..."))

LineGroup(t, low, c) ==
    IF c = 0 \/ c > Len(t) THEN NoGroup
    ELSE [found |-> TRUE,
          group |-> SubSeq(t, c, FirstIndex({j \in c + 1..Len(t) + 1 : LineStop(low, j)}) - 1)]

\* SYNOPSIS[^\n]*\n from i: the index after the line break that ends the line
LineBreakAfter(low, i) == IF i = 0 THEN 0 ELSE Lit(low, Find(low, "\n", i), "\n")

\* re.search(r"SYNOPSIS[^\n]*\n(.+?)(?=\n[A-Z]{3}[0-9]|\$\$|\nAMZ|\Z)", text, DOTALL | IGNORECASE)
LineMatch(t, low) ==
    LineGroup(t, low, LineBreakAfter(low, Lit(low, Find(low, "synopsis", 1), "synopsis")))

SynopsisMax == 420

\* re.sub(r"\s+", " ", m.group(1).strip())[:420]
CleanSynopsis(g) == Prefix(Collapse(Strip(g)), SynopsisMax)

\* variant: the keyword-line pattern tried before the marker pattern
FirstMatch_LineFirst(a, b) ==
    IF b.found THEN CleanSynopsis(b.group)
    ELSE IF a.found THEN CleanSynopsis(a.group)
    ELSE ""

\* the loop over the two patterns: a is the match of the first, b of the second
FirstMatch(a, b) ==
    IF a.found THEN CleanSynopsis(a.group)
    ELSE IF b.found THEN CleanSynopsis(b.group)
    ELSE ""

SynopsisIn(t, low) == FirstMatch(MarkerMatch(t, low), LineMatch(t, low))

\* the body of fetch_synopsis once text is fetched
SynopsisOf(t) == IF t = "" THEN "" ELSE SynopsisIn(t, Lower(t))

-----------------------------------------------------------------------------
(* Specification of fetch_synopsis: the two servers answer in every way of *)
(* Responses, then the function runs once.                                 *)

SynopsisSentence == "A surface high pressure north of the area\nwill maintain  moderate to fresh trade winds.  "
LongSynopsis ==
    SynopsisSentence \o SynopsisSentence \o SynopsisSentence \o SynopsisSentence \o
    SynopsisSentence \o SynopsisSentence \o SynopsisSentence \o SynopsisSentence

SynopsisBodies ==
    {"",
     "FZCA52 TJSJ 011530\n.SYNOPSIS...A surface high\nnorth of the area.\n\n.TODAY...East winds 10 knots.\n$$",
     "FZCA52 TJSJ\n.synopsis...Moderate trades.\n.5 ft swell\n.tonight...Rain.",
     ".SYNOPSIS...\n  Fresh  trades \t prevail. \n\n$$\n.TODAY...",
     ".SYNOPSIS...$$ab$$cd",
     ".SYNOPSIS...",
     ".SYNOPSIS...\n\n$$",
     ".SYNOPSIS..." \o LongSynopsis \o "\n.TODAY...East winds 10 knots.",
     "Synopsis for PR waters\n\nTrade winds\n  persist.\nAMZ711-012345-\nEast winds 10 knots.",
     "SYNOPSIS FOR THE WATERS\nLight winds.\namz712\nrest",
     "AMZ700\nSYNOPSIS\nSeas building. \n$$\n.SYNOPSIS...A front approaches.\n$$",
     "SYNOPSIS no line break",
     "AMZ711-012345-\nEast winds 10 knots. Seas 3 feet."}

Responses ==
    {[ok |-> FALSE, body |-> ""]} \cup {[ok |-> TRUE, body |-> b] : b \in SynopsisBodies}

InitSynopsis ==
    /\ pc = "syn_start"
    /\ net \in [{NWS_COMBINED_URL, NWS_SYNOPSIS_URL} -> Responses]
    /\ requests = <<>>
    /\ text = ""
    /\ synopsis = ""
    /\ data = DefaultRecord
    /\ zones = [z \in ZoneNames |-> DefaultRecord]
    /\ advisories = <<>>
    /\ elapsed = 0
    /\ moon = <<>>
    /\ NoRun

\* variant: both bulletins are fetched before either is looked at
SynopsisRequests_Both(n) ==
    FetchAttempts(n, NWS_COMBINED_URL) \o FetchAttempts(n, NWS_SYNOPSIS_URL)

\* fetch_url(NWS_COMBINED_URL) or fetch_url(NWS_SYNOPSIS_URL): "a or b" asks the
\* second server only when the first gave nothing
SynopsisRequests(n) ==
    IF fetch_url(n, NWS_COMBINED_URL) # ""
    THEN FetchAttempts(n, NWS_COMBINED_URL)
    ELSE FetchAttempts(n, NWS_COMBINED_URL) \o FetchAttempts(n, NWS_SYNOPSIS_URL)
SynopsisText(n) ==
    IF fetch_url(n, NWS_COMBINED_URL) # ""
    THEN fetch_url(n, NWS_COMBINED_URL)
    ELSE fetch_url(n, NWS_SYNOPSIS_URL)

FetchSynopsis ==
    /\ pc = "syn_start"
    /\ requests' = requests \o SynopsisRequests(net)
    /\ text' = SynopsisText(net)
    /\ synopsis' = SynopsisOf(text')
    /\ pc' = "syn_done"
    /\ UNCHANGED <<net, data, zones, advisories, elapsed, moon, runVars>>

NextSynopsis == FetchSynopsis

SpecSynopsis == InitSynopsis /\ [][NextSynopsis]_vars

MinOf(S) == CHOOSE x \in S : \A y \in S : x <= y

SynLow == Lower(text)

\* where ".SYNOPSIS..." stands with at least one character behind it
MarkerAt == {i \in 1..Len(text) : MatchAt(SynLow, i, ".synopsis...") /\ i + 12 <= Len(text)}

\* last index of the text that follows the marker: the shortest non-empty
\* stretch that the next section marker, "$$" or the end of the text follows
MarkerEnds(c) ==
    {e \in c..Len(text) :
        \/ e = Len(text)
        \/ MatchAt(text, e + 1, "$$")
        \/ MatchAt(text, e + 1, "\n.") /\ IsAlpha(At(text, e + 3))}
MarkerCapture == SubSeq(text, MinOf(MarkerAt) + 12, MinOf(MarkerEnds(MinOf(MarkerAt) + 12)))

\* where the text after the line holding "SYNOPSIS" at i starts
LineStartsOf(i) ==
    {c \in i + 9..Len(text) :
        /\ At(text, c - 1) = "\n"
        /\ \A k \in i + 8..c - 2 : At(text, k) # "\n"}
KeywordAt == {i \in 1..Len(text) : MatchAt(SynLow, i, "synopsis") /\ LineStartsOf(i) # {}}

LineEnds(c) ==
    {e \in c..Len(text) :
        \/ e = Len(text)
        \/ MatchAt(text, e + 1, "$$")
        \/ MatchAt(SynLow, e + 1, "\namz")
        \/ /\ At(text, e + 1) = "\n"
           /\ IsAlpha(At(text, e + 2)) /\ IsAlpha(At(text, e + 3)) /\ IsAlpha(At(text, e + 4))
           /\ IsDigit(At(text, e + 5))}
LineCapture ==
    SubSeq(text, MinOf(LineStartsOf(MinOf(KeywordAt))),
           MinOf(LineEnds(MinOf(LineStartsOf(MinOf(KeywordAt))))))

\* the synopsis the patterns give in their order, the capture cleaned by Clean
ClaimedSynopsis(Clean(_)) ==
    IF text = "" THEN ""
    ELSE IF MarkerAt # {} THEN Clean(MarkerCapture)
    ELSE IF KeywordAt # {} THEN Clean(LineCapture)
    ELSE ""

\* C8 (as stated): fetch_synopsis returns the capture of the first pattern that
\* matches, marker pattern before keyword-line pattern, with every whitespace run
\* of the capture collapsed to one space and then cut to 420 characters, and ""
\* when neither matches or the text is empty.
C8_CaptureCollapsedAndCut ==
    pc = "syn_done" =>
        synopsis = ClaimedSynopsis(LAMBDA g : Prefix(Collapse(g), 420))

\* C8 (amended): fetch_synopsis returns the capture of the first pattern that
\* matches, marker pattern before keyword-line pattern, with the whitespace at
\* its two ends removed, every whitespace run left collapsed to one space, and
\* the result cut to at most 420 characters; it returns "" when neither pattern
\* matches or the text is empty.
C8_CaptureStrippedCollapsedAndCut ==
    pc = "syn_done" =>
        /\ synopsis = ClaimedSynopsis(LAMBDA g : Prefix(Collapse(Strip(g)), 420))
        /\ Len(synopsis) <= 420
        /\ \A i \in 1..Len(synopsis) :
              IsSpace(At(synopsis, i)) => At(synopsis, i) = " " /\ ~IsSpace(At(synopsis, i + 1))
        /\ (text = "" \/ (MarkerAt = {} /\ KeywordAt = {})) => synopsis = ""

\* the marker pattern matched a text longer than the limit: collapsed and cut
C8_Witness ==
    /\ pc = "syn_done"
    /\ MarkerAt # {}
    /\ Len(Collapse(Strip(MarkerCapture))) > 420
    /\ Len(synopsis) = 420

\* both patterns match and the keyword line comes first in the text
C8_WitnessMarkerFirst ==
    /\ pc = "syn_done"
    /\ MarkerAt # {} /\ KeywordAt # {}
    /\ MinOf(KeywordAt) < MinOf(MarkerAt)
    /\ synopsis = "A front approaches."

\* only the keyword-line pattern matches
C8_WitnessKeywordLine ==
    /\ pc = "syn_done"
    /\ MarkerAt = {} /\ KeywordAt # {}
    /\ synopsis = "Trade winds persist."

\* the capture ends in whitespace, which the result does not keep
C8_WitnessStripped ==
    /\ pc = "syn_done"
    /\ MarkerAt # {}
    /\ MarkerCapture = "A surface high\nnorth of the area.\n"
    /\ synopsis = "A surface high north of the area."

\* a bulletin without either marker
C8_WitnessNoMatch ==
    /\ pc = "syn_done"
    /\ text # "" /\ MarkerAt = {} /\ KeywordAt = {}
    /\ synopsis = ""

\* both requests fail
C8_WitnessEmpty ==
    /\ pc = "syn_done"
    /\ ~net[NWS_COMBINED_URL].ok /\ ~net[NWS_SYNOPSIS_URL].ok
    /\ requests = <<NWS_COMBINED_URL, NWS_SYNOPSIS_URL>>
    /\ text = "" /\ synopsis = ""

-----------------------------------------------------------------------------
(* get_moon_phase                                                          *)
(*                                                                         *)
(* Time runs on a grid of MoonSteps steps to the synodic month, so SYNODIC *)
(* is MoonSteps steps and cycle_pos is a number of steps out of MoonSteps; *)
(* the arithmetic on the grid is exact.                                    *)

MoonSteps == 80

\* math.cos(2 * math.pi * k / MoonSteps) * CosScale for k = 0 .. MoonSteps - 1,
\* rounded up to a whole number: the double computed a quarter of the way
\* round is a little above 0, three quarters of the way round a little below
CosScale == 1000000000
CosTable ==
    <<1000000000, 996917334, 987688341, 972369921, 951056517,
      923879533, 891006525, 852640165, 809016995, 760405966,
      707106782, 649448049, 587785253, 522498565, 453990500,
      382683433, 309016995, 233445364, 156434466, 78459096,
      1, -78459095, -156434465, -233445363, -309016994,
      -382683432, -453990499, -522498564, -587785252, -649448048,
      -707106781, -760405965, -809016994, -852640164, -891006524,
      -923879532, -951056516, -972369920, -987688340, -996917333,
      -1000000000, -996917333, -987688340, -972369920, -951056516,
      -923879532, -891006524, -852640164, -809016994, -760405965,
      -707106781, -649448048, -587785252, -522498564, -453990499,
      -382683432, -309016994, -233445363, -156434465, -78459095,
      0, 78459096, 156434466, 233445364, 309016995,
      382683433, 453990500, 522498565, 587785253, 649448049,
      707106782, 760405966, 809016995, 852640165, 891006525,
      923879533, 951056517, 972369921, 987688341, 996917334>>
\* the cosine has the period of the cycle
Cos(k) == CosTable[(k % MoonSteps) + 1]

\* variant: the remainder that takes the sign of the dividend
CyclePos_Truncating(e) == IF e >= 0 THEN e % MoonSteps ELSE 0 - ((0 - e) % MoonSteps)

\* (elapsed % SYNODIC) / SYNODIC, in steps: Python's % takes the sign of the divisor
CyclePos(e) == e % MoonSteps

\* int((1 - math.cos(2 * math.pi * cycle_pos)) / 2 * 100): int() drops the fraction
Illumination(k) == (CosScale - Cos(k)) \div (CosScale \div 50)

\* the thresholds of the phases table, in 1/10000 of a cycle
Phases ==
    <<[threshold |-> 625,   name |-> "New Moon"],
      [threshold |-> 1875,  name |-> "Waxing Crescent"],
      [threshold |-> 3125,  name |-> "First Quarter"],
      [threshold |-> 4375,  name |-> "Waxing Gibbous"],
      [threshold |-> 5625,  name |-> "Full Moon"],
      [threshold |-> 6875,  name |-> "Waning Gibbous"],
      [threshold |-> 8125,  name |-> "Last Quarter"],
      [threshold |-> 9375,  name |-> "Waning Crescent"],
      [threshold |-> 10001, name |-> "New Moon"]>>

\* variant: a threshold reached counts as not yet passed
Below_Inclusive(k, threshold) == k * 10000 <= threshold * MoonSteps

\* cycle_pos < threshold
Below(k, threshold) == k * 10000 < threshold * MoonSteps

\* the loop over phases: the name of the first threshold above cycle_pos
PhaseName(k) ==
    LET hit == {i \in 1..Len(Phases) : Below(k, Phases[i].threshold)}
    IN IF hit = {} THEN "New Moon" ELSE Phases[FirstIndex(hit)].name

MoonResult(k) == [cycle_pos |-> k, illumination |-> Illumination(k), name |-> PhaseName(k)]

\* what get_moon_phase returns (the drawing left out) when the clock reads e
get_moon_phase(e) == MoonResult(CyclePos(e))

-----------------------------------------------------------------------------
(* Specification of get_moon_phase: the clock starts anywhere within       *)
(* MaxCycles synodic months of the reference new moon, before or after it, *)
(* and the function is called as time passes.                              *)

MaxCycles == 2
MaxCalls == 2
MaxElapsed == MaxCycles * MoonSteps
Waits == {1, MoonSteps \div 2, MoonSteps}

InitMoon ==
    /\ pc = "moon_start"
    /\ elapsed \in (0 - MaxElapsed)..MaxElapsed
    /\ moon = <<>>
    /\ text = ""
    /\ data = DefaultRecord
    /\ zones = [z \in ZoneNames |-> DefaultRecord]
    /\ advisories = <<>>
    /\ net = <<>>
    /\ requests = <<>>
    /\ synopsis = ""
    /\ NoRun

GetMoonPhase ==
    /\ pc = "moon_start"
    /\ moon' = Append(moon, [elapsed |-> elapsed, result |-> get_moon_phase(elapsed)])
    /\ pc' = "moon_done"
    /\ UNCHANGED <<elapsed, text, data, zones, advisories, net, requests, synopsis, runVars>>

\* time passes between two calls
Wait ==
    /\ pc = "moon_done"
    /\ Len(moon) < MaxCalls
    /\ \E d \in Waits :
          /\ elapsed + d <= MaxElapsed
          /\ elapsed' = elapsed + d
    /\ pc' = "moon_start"
    /\ UNCHANGED <<moon, text, data, zones, advisories, net, requests, synopsis, runVars>>

NextMoon == GetMoonPhase \/ Wait

SpecMoon == InitMoon /\ [][NextMoon]_vars

MoonCalls == 1..Len(moon)

C9_WitnessReference ==
    /\ Len(moon) >= 1
    /\ moon[1].elapsed = 0
    /\ moon[1].result.cycle_pos = 0

\* (1 - cos(2 pi cycle_pos)) / 2 * 100 rounded to the nearest integer
RoundedIllumination(k) == (CosScale - Cos(k) + CosScale \div 100) \div (CosScale \div 50)

\* C10: the illumination returned is the integer in 0..100 nearest to
\* (1 - cos(2 pi cycle_pos)) / 2 * 100, and it is 100 half a synodic month
\* after the reference new moon.
C10_IlluminationRounded ==
    \A i \in MoonCalls :
        /\ moon[i].result.illumination \in 0..100
        /\ moon[i].result.illumination = RoundedIllumination(moon[i].result.cycle_pos)
        /\ moon[i].elapsed = MoonSteps \div 2 => moon[i].result.illumination = 100

\* what holds instead: the fraction is dropped, never rounded up
C10_IlluminationTruncated ==
    \A i \in MoonCalls :
        /\ moon[i].result.illumination \in 0..100
        /\ moon[i].result.illumination * (CosScale \div 50)
               <= CosScale - Cos(moon[i].result.cycle_pos)
        /\ CosScale - Cos(moon[i].result.cycle_pos)
               < (moon[i].result.illumination + 1) * (CosScale \div 50)
        /\ moon[i].elapsed = MoonSteps \div 2 => moon[i].result.illumination = 100

\* a tenth of a cycle after the new moon: 9.549... is returned as 9
C10_WitnessTruncated ==
    /\ Len(moon) >= 1
    /\ moon[1].elapsed = MoonSteps \div 10
    /\ moon[1].result.illumination = 9
    /\ RoundedIllumination(moon[1].result.cycle_pos) = 10

\* half a synodic month after the reference new moon
C10_WitnessFull ==
    /\ Len(moon) >= 1
    /\ moon[1].elapsed = MoonSteps \div 2
    /\ moon[1].result.illumination = 100

PhaseNamesInOrder ==
    <<"New Moon", "Waxing Crescent", "First Quarter", "Waxing Gibbous",
      "Full Moon", "Waning Gibbous", "Last Quarter", "Waning Crescent">>

\* the name for a position k steps into the cycle: the cycle is cut at the odd
\* sixteenths, and the eighth that straddles the start of the cycle is New Moon
Sixteenth(k) == (16 * k) \div MoonSteps
ClaimedPhaseName(k) == PhaseNamesInOrder[(((Sixteenth(k) + 1) \div 2) % 8) + 1]

\* C11: for every cycle position p in [0, 1) the name returned is the one of
\* the eight whose eighth of the cycle, bounded by the odd sixteenths with the
\* lower bound included and the upper excluded, holds p; New Moon holds
\* p < 1/16 and p >= 15/16.
C11_PhaseNameBySixteenths ==
    \A i \in MoonCalls :
        /\ moon[i].result.name = ClaimedPhaseName(moon[i].result.cycle_pos)
        /\ Cardinality({n \in 1..8 : PhaseNamesInOrder[n] = moon[i].result.name}) = 1

\* a call exactly 1/16 of a cycle after the new moon: the boundary belongs to
\* Waxing Crescent
C11_Witness ==
    /\ Len(moon) >= 1
    /\ 16 * moon[1].result.cycle_pos = MoonSteps
    /\ moon[1].result.name = "Waxing Crescent"

\* a call in the last sixteenth of the cycle
C11_WitnessLate ==
    /\ Len(moon) >= 1
    /\ 16 * moon[1].result.cycle_pos >= 15 * MoonSteps
    /\ moon[1].result.name = "New Moon"

-----------------------------------------------------------------------------
(* fetch_url with as_json, and fetch_rain_probability                      *)
(*                                                                         *)
(* A response is [ok, body] for a text and [ok, parses, doc] for the       *)
(* forecast: ok is FALSE when urlopen raises (no route, timeout, a status  *)
(* that is not 2xx), parses is FALSE when json.loads raises.  A decoded    *)
(* document is [keys, periods]: the keys of the top-level object and the   *)
(* list under properties.periods.                                          *)

NWS_FORECAST_URL == "https://api.weather.gov/gridpoints/SJU/60,77/forecast"

NoValue == 0 - 1
None == [is_none |-> TRUE, keys |-> {}, periods |-> <<>>]

\* fetch_url(url, as_json=True): the decoded document, None when anything raises
fetch_json(n, url) ==
    IF n[url].ok /\ n[url].parses
    THEN [is_none |-> FALSE, keys |-> n[url].doc.keys, periods |-> n[url].doc.periods]
    ELSE None

RECURSIVE DigitsOf(_)
DigitsOf(v) == IF v < 10 THEN At(DigitChars, v + 1) ELSE DigitsOf(v \div 10) \o At(DigitChars, (v % 10) + 1)
\* str(int(val)) for a val >= 0
IntToStr(v) == DigitsOf(v)

\* datetime.now(AST).date() of the run, as strptime's "%Y-%m-%d" writes it
TodayDate == "2026-11-01"

\* datetime.strptime(start_str[:10], "%Y-%m-%d") does not raise
IsDate(s) ==
    /\ Len(s) = 10
    /\ \A i \in {1, 2, 3, 4, 6, 7, 9, 10} : IsDigit(At(s, i))
    /\ At(s, 5) = "-" /\ At(s, 8) = "-"

\* the period the loop returns on: today's, daytime, with a value
RainHit(p) ==
    /\ IsDate(Prefix(p.startTime, 10))
    /\ Prefix(p.startTime, 10) = TodayDate
    /\ p.isDaytime
    /\ p.pop # NoValue

RainFromPeriods(periods) ==
    LET hits == {i \in 1..Len(periods) : RainHit(periods[i])}
    IN IF hits # {} THEN IntToStr(periods[FirstIndex(hits)].pop) \o "%"
       ELSE IF Len(periods) > 0 /\ periods[1].pop # NoValue THEN IntToStr(periods[1].pop) \o "%"
       ELSE "N/A"

\* fetch_rain_probability once the document is fetched: "not data" holds for
\* None and for an empty object, a missing key raises inside the try
RainOf(d) ==
    IF d.is_none \/ d.keys = {} THEN "N/A"
    ELSE IF "properties" \notin d.keys THEN "N/A"
    ELSE RainFromPeriods(d.periods)

-----------------------------------------------------------------------------
(* build_html: the document is the record of the strings the template      *)
(* receives; the fixed markup, the drawings, the date and the logo are     *)
(* left out.                                                               *)

\* (the dash of the source is a long one)
SynopsisFallback == "Synopsis unavailable - visit weather.gov/sju for current marine forecast."
Dash == "&mdash;"
FishingRough == "Rough &mdash; offshore not recommended"
FishingModerate == "Moderate &mdash; check conditions"
AlertRed == "#8b0000, #cc1616, #8b0000"
AlertGreen == "#0a4a00, #0c7a00, #0a4a00"

\* variant: the per-zone synopsis of the earlier script read as well
KeysRead_WithSynopsis == {"wind", "gusts", "seas", "wave_detail", "synopsis"}

\* the keys read with z[...], which raises KeyError on a record without them
KeysRead == {"wind", "gusts", "seas", "wave_detail"}

\* zones["atlantic"] ... zones["caribbean"] and the z[...] reads all succeed
ReadsSucceed(zs) ==
    /\ ZoneNames \subseteq DOMAIN zs
    /\ \A z \in ZoneNames : KeysRead \subseteq DOMAIN zs[z]

\* has_warning
HasWarning(advs) ==
    \E i \in 1..Len(advs) :
        Contains(Lower(advs[i]), "advisory") \/ Contains(Lower(advs[i]), "warning")

RoughMarks == {"8 ", "9 ", "10", "11", "12", "13", "14", "15"}

\* the fishing line: a substring test on the Atlantic seas string
Fishing(seas) ==
    IF \E x \in RoughMarks : Contains(seas, x) THEN FishingRough ELSE FishingModerate

\* z.get(key, "")
Get(z, key) == IF key \in DOMAIN z THEN z[key] ELSE ""

\* x or "&mdash;"
OrDash(x) == IF x # "" THEN x ELSE Dash

\* zone_td(z, cls, name): the four strings of a zone's cell
zone_td(z) == [wind |-> z.wind, gusts |-> z.gusts, seas |-> z.seas, wave_detail |-> z.wave_detail]

\* variant: the synopsis is shown as it was found
ShownSynopsis_AsFound(syn) == syn

\* if not synopsis: synopsis = the fallback sentence
ShownSynopsis(syn) == IF syn = "" THEN SynopsisFallback ELSE syn

Raised == [raised |-> TRUE]

ComposeHtml(zs, advs, syn, rain, name, illum) ==
    [raised      |-> FALSE,
     alert_bg    |-> IF HasWarning(advs) THEN AlertRed ELSE AlertGreen,
     adv_text    |-> Join(" &nbsp;|&nbsp; ", advs),
     tags        |-> advs,
     cells       |-> [z \in ZoneNames |-> zone_td(zs[z])],
     atl_swell   |-> zs["atlantic"].seas,
     atl_wave    |-> OrDash(zs["atlantic"].wave_detail),
     car_swell   |-> zs["caribbean"].seas,
     car_wave    |-> OrDash(zs["caribbean"].wave_detail),
     precip      |-> OrDash(Get(zs["atlantic"], "precip")),
     fishing     |-> Fishing(zs["atlantic"].seas),
     synopsis    |-> ShownSynopsis(syn),
     rain_pct    |-> rain,
     moon_name   |-> name,
     moon_illum  |-> IntToStr(illum)]

\* build_html(zones, synopsis, ..., rain_pct, ..., moon_name, moon_illum, ...)
build_html(zs, syn, rain, name, illum) ==
    IF ReadsSucceed(zs)
    THEN ComposeHtml(zs, get_advisories(zs), syn, rain, name, illum)
    ELSE Raised

-----------------------------------------------------------------------------
(* Specification of build_html: four records that parse_zone returns, a    *)
(* synopsis that fetch_synopsis returns, then the function runs once.      *)

SeasTexts ==
    {"3", "7", "8", "9", "10", "12", "15", "16", "17", "18", "20", "25", "28",
     "2 to 4", "6 to 8", "5 to 7", "7 to 16", "12 to 18", "16 to 20"}

\* bulletins for the Atlantic zone: every seas phrase alone and in a full
\* forecast, and bulletins without one
CardAtlanticTexts ==
    {"", "AMZ711-012100-\nNo forecast text."}
    \cup {".TODAY...Seas " \o h \o " feet.\n.TONIGHT...Seas 9 feet." : h \in SeasTexts}
    \cup {"SMALL CRAFT ADVISORY IN EFFECT\n.TODAY...East winds 15 to 20 knots. Gusts up to 30 knots. Seas "
             \o h \o " feet. Wave Detail: East 6 feet at 8 seconds. Scattered showers.\n.TONIGHT...Rain."
          : h \in {"5 to 7", "16"}}

CardZoneTexts ==
    {"",
     ".TODAY...Southeast winds 10 knots. Mostly sunny.\n.TONIGHT...Seas 3 feet.",
     "GALE WARNING IN EFFECT\n.TODAY...E winds 20 knots. Gusts up to 35 knots. Seas 9 to 12 feet. Wave Detail: North 10 feet at 12 seconds and east 3 feet at 5 seconds. Thunderstorms likely.\n.TONIGHT...Rain."}

CardAtlanticRecords == {parse_zone(t) : t \in CardAtlanticTexts}
CardZoneRecords == {parse_zone(t) : t \in CardZoneTexts}

InitCard ==
    /\ pc = "card_start"
    /\ \E a \in CardAtlanticRecords, n \in CardZoneRecords,
          e \in CardZoneRecords, c \in CardZoneRecords :
          zones = [atlantic |-> a, north_pr |-> n, east_pr |-> e, caribbean |-> c]
    /\ synopsis \in {"", "A surface high north of the area."}
    /\ rain_pct \in {"N/A", "40%"}
    /\ html = <<>>
    /\ output = NoFile
    /\ temp = {}
    /\ render = <<>>
    /\ exit_code = NotExited
    /\ advisories = <<>>
    /\ text = ""
    /\ data = DefaultRecord
    /\ net = <<>>
    /\ requests = <<>>
    /\ elapsed = 0
    /\ moon = <<>>

BuildHtml ==
    /\ pc = "card_start"
    /\ html' = build_html(zones, synopsis, rain_pct, "New Moon", 0)
    /\ pc' = "card_done"
    /\ UNCHANGED <<zones, synopsis, rain_pct, output, temp, render, exit_code,
                   advisories, text, data, net, requests, elapsed, moon>>

NextCard == BuildHtml

SpecCard == InitCard /\ [][NextCard]_vars

AtlanticSeas == zones["atlantic"].seas

RECURSIVE StrToInt(_)
\* the number a string of digits writes
StrToInt(w) ==
    IF Len(w) = 1 THEN (CHOOSE d \in 0..9 : At(DigitChars, d + 1) = w)
    ELSE 10 * StrToInt(SubSeq(w, 1, Len(w) - 1)) + StrToInt(SubSeq(w, Len(w), Len(w)))

\* the heights, in feet, that a seas value "N ft" or "N to M ft" names
Heights(seas) ==
    {StrToInt(Tokens(seas)[i]) : i \in {i \in 1..Len(Tokens(seas)) : AllDigits(Tokens(seas)[i])}}

\* C19: the fishing line is "Rough - offshore not recommended" exactly when the
\* Atlantic seas value names a height of 8 feet or more, whatever the height,
\* and "Moderate" otherwise, the default "Check NWS" included.
C19_RoughAtEightFeetOrMore ==
    pc = "card_done" =>
        /\ html.fishing \in {FishingRough, FishingModerate}
        /\ html.fishing = FishingRough <=> \E h \in Heights(AtlanticSeas) : h >= 8

\* what holds instead: the claim's rule up to 15 feet, and never a false alarm
C19_RoughUpToFifteenFeet ==
    pc = "card_done" =>
        /\ (\A h \in Heights(AtlanticSeas) : h <= 15)
              => (html.fishing = FishingRough <=> \E h \in Heights(AtlanticSeas) : h >= 8)
        /\ html.fishing = FishingRough => \E h \in Heights(AtlanticSeas) : h >= 8
        /\ AtlanticSeas = "Check NWS" => html.fishing = FishingModerate

\* seas of 16 feet shown as moderate
C19_WitnessSixteen ==
    /\ pc = "card_done"
    /\ AtlanticSeas = "16 ft"
    /\ html.fishing = FishingModerate

\* seas of 6 to 8 feet shown as rough
C19_WitnessEight ==
    /\ pc = "card_done"
    /\ AtlanticSeas = "6 to 8 ft"
    /\ html.fishing = FishingRough


-----------------------------------------------------------------------------
(* render_jpg: the renderer is a separate program; whether it starts, what *)
(* it leaves behind (its return code, the raw image file) and whether the  *)
(* imaging library can read the raw image are the environment's choice.    *)

\* the smallest raw image accepted
MinBytes == 5000

\* a file of the temporary directory or the output path
FileOf(b, img) == [exists |-> TRUE, bytes |-> b, image |-> img]

\* what subprocess.run leaves: the return code and the raw image, if any; or
\* the program cannot be started and subprocess.run raises
RendererOutcomes ==
    {[started |-> TRUE, returncode |-> c, raw |-> r] :
        c \in {0, 1},
        r \in {NoFile} \cup {FileOf(b, "raw") : b \in {0, MinBytes - 1, MinBytes, 250000}}}
    \cup
    {[started |-> FALSE, returncode |-> NotExited, raw |-> NoFile]}

\* variant: a renderer that reports an error is not believed
RawIsValid_CheckingReturnCode(o) ==
    o.returncode = 0 /\ o.raw.exists /\ o.raw.bytes >= MinBytes

\* not (not exists or st_size < 5000)
RawIsValid(o) == o.raw.exists /\ o.raw.bytes >= MinBytes

\* the file at output_path after the save: cropped and resized by the imaging
\* library, or the raw image moved there when the library is not installed
SavedImage(o, pil) == IF pil THEN FileOf(o.raw.bytes, "cropped") ELSE o.raw

\* the exception that leaves render_jpg, "" when it returns: subprocess.run
\* raised, or the imaging library raised on a raw image it cannot read (only
\* ImportError is caught)
RenderError(o, pil, readable) ==
    IF ~o.started THEN "launch"
    ELSE IF RawIsValid(o) /\ pil /\ ~readable THEN "image"
    ELSE ""

\* variant: the raw image is moved to the output path before it is checked
OutputAfter_MoveFirst(old, o, pil) == IF o.raw.exists THEN SavedImage(o, pil) ELSE old

\* the file at output_path when render_jpg is left
OutputAfter(old, o, pil) == IF RawIsValid(o) THEN SavedImage(o, pil) ELSE old

\* the temporary files on disk once the renderer has run
TempAfterRun(o) == IF o.raw.exists THEN {"tmp_html", "raw_jpg"} ELSE {"tmp_html"}

\* the temporary files when the finally clause is reached: shutil.move has
\* taken the raw image away when the imaging library is not installed
TempBeforeFinally(files, o, pil) ==
    IF o.started /\ RawIsValid(o) /\ ~pil THEN files \ {"raw_jpg"} ELSE files

\* variant: only the document is unlinked
TempAfterFinally_HtmlOnly(files) == files \ {"tmp_html"}

\* finally: every temporary file that still exists is unlinked
TempAfterFinally(files) == files \ {"tmp_html", "raw_jpg"}

-----------------------------------------------------------------------------
(* main: one run of the script, step by step                               *)

NWS_ZONES ==
    [atlantic  |-> "https://tgftp.nws.noaa.gov/data/forecasts/marine/coastal/am/amz711.txt",
     north_pr  |-> "https://tgftp.nws.noaa.gov/data/forecasts/marine/coastal/am/amz712.txt",
     east_pr   |-> "https://tgftp.nws.noaa.gov/data/forecasts/marine/coastal/am/amz726.txt",
     caribbean |-> "https://tgftp.nws.noaa.gov/data/forecasts/marine/coastal/am/amz733.txt"]

Urls == {NWS_FORECAST_URL, NWS_COMBINED_URL} \cup {NWS_ZONES[z] : z \in ZoneNames}

\* a request that raises: the connection fails, the 20 s timeout passes, or the
\* server answers with an error status and an error page
Failed(kind, page) == [ok |-> FALSE, failure |-> kind, body |-> page]
Served(b) == [ok |-> TRUE, failure |-> "", body |-> b]

\* the forecast document: a served body that json.loads accepts or not
ServedJson(good, ks, ps) ==
    [ok |-> TRUE, failure |-> "", body |-> "", parses |-> good,
     doc |-> [keys |-> ks, periods |-> ps]]
FailedJson(kind) ==
    [ok |-> FALSE, failure |-> kind, body |-> "", parses |-> FALSE,
     doc |-> [keys |-> {}, periods |-> <<>>]]

Period(start, day, p) == [startTime |-> start, isDaytime |-> day, pop |-> p]

ForecastResponses ==
    {FailedJson("timeout"),
     FailedJson("status"),
     ServedJson(FALSE, {}, <<>>),
     ServedJson(TRUE, {}, <<>>),
     ServedJson(TRUE, {"properties"},
                <<Period("2026-10-31T18:00:00-04:00", FALSE, 70),
                  Period("2026-11-01T06:00:00-04:00", TRUE, 40)>>)}

AtlanticBulletin ==
    "Synopsis for Atlantic waters\nTrade winds persist through Friday.\n\nAMZ711-\n.TODAY...East winds 15 to 20 knots. Seas 5 to 7 feet. Scattered showers.\n.TONIGHT...East winds 10 knots."

CombinedResponses ==
    {Failed("network", ""),
     Served(""),
     Served(".SYNOPSIS...A surface high north of the area will maintain fresh trades.\n\n$$")}

AtlanticResponses ==
    {Failed("timeout", ""), Served(""), Served(AtlanticBulletin)}

NorthResponses ==
    {Failed("status", "<html>503 Service Unavailable</html>"),
     Served(""),
     Served("SMALL CRAFT ADVISORY IN EFFECT THROUGH THIS EVENING\n.TODAY...Northeast winds 20 knots with gusts up to 30 knots. Seas 8 to 10 feet.\n.TONIGHT...Seas 7 feet.")}

OtherResponses ==
    {Failed("network", ""), Served("AMZ733-\nNo forecast periods in this product.")}

\* the file a previous run left at the output path, if there was one
StaleOutput == FileOf(180000, "stale")

InitMain ==
    /\ pc = "main_moon"
    /\ \E f \in ForecastResponses, c \in CombinedResponses, a \in AtlanticResponses,
          n \in NorthResponses, e \in OtherResponses, s \in OtherResponses :
          net = [u \in Urls |->
                    IF u = NWS_FORECAST_URL THEN f
                    ELSE IF u = NWS_COMBINED_URL THEN c
                    ELSE IF u = NWS_ZONES.atlantic THEN a
                    ELSE IF u = NWS_ZONES.north_pr THEN n
                    ELSE IF u = NWS_ZONES.east_pr THEN e
                    ELSE s]
    /\ elapsed \in {0 - 7, MoonSteps \div 2}
    /\ output \in {NoFile, StaleOutput}
    /\ requests = <<>>
    /\ moon = <<>>
    /\ rain_pct = ""
    /\ synopsis = ""
    /\ text = [z \in ZoneNames |-> ""]
    /\ data = DefaultRecord
    /\ zones = [z \in ZoneNames |-> DefaultRecord]
    /\ advisories = <<>>
    /\ html = <<>>
    /\ temp = {}
    /\ render = <<>>
    /\ exit_code = NotExited

\* moon_svg_str, moon_name, moon_illum, cycle_pos = get_moon_phase()
MainMoon ==
    /\ pc = "main_moon"
    /\ moon' = Append(moon, [elapsed |-> elapsed, result |-> get_moon_phase(elapsed)])
    /\ pc' = "main_rain"
    /\ UNCHANGED <<zones, advisories, text, data, net, requests, synopsis, elapsed, runVars>>

\* rain_pct = fetch_rain_probability()
MainRain ==
    /\ pc = "main_rain"
    /\ requests' = requests \o FetchAttempts(net, NWS_FORECAST_URL)
    /\ rain_pct' = RainOf(fetch_json(net, NWS_FORECAST_URL))
    /\ pc' = "main_synopsis"
    /\ UNCHANGED <<zones, advisories, text, data, net, synopsis, elapsed, moon,
                   html, output, temp, render, exit_code>>

\* synopsis = fetch_synopsis()
MainSynopsis ==
    /\ pc = "main_synopsis"
    /\ requests' = requests \o SynopsisRequests(net)
    /\ synopsis' = SynopsisOf(SynopsisText(net))
    /\ pc' = "main_fetch"
    /\ UNCHANGED <<zones, advisories, text, data, net, elapsed, moon, runVars>>

RECURSIVE ZoneRequests(_, _)
ZoneRequests(n, order) ==
    IF order = <<>> THEN <<>>
    ELSE FetchAttempts(n, NWS_ZONES[Head(order)]) \o ZoneRequests(n, Tail(order))

\* raw = {name: fetch_url(url) for name, url in NWS_ZONES.items()}
MainFetch ==
    /\ pc = "main_fetch"
    /\ requests' = requests \o ZoneRequests(net, <<"atlantic", "north_pr", "east_pr", "caribbean">>)
    /\ text' = [z \in ZoneNames |-> fetch_url(net, NWS_ZONES[z])]
    /\ pc' = "main_parse"
    /\ UNCHANGED <<zones, advisories, data, net, synopsis, elapsed, moon, runVars>>

\* zones = {name: parse_zone(text) for name, text in raw.items()}
MainParse ==
    /\ pc = "main_parse"
    /\ zones' = [z \in ZoneNames |-> parse_zone(text[z])]
    /\ pc' = "main_build"
    /\ UNCHANGED <<advisories, text, data, net, requests, synopsis, elapsed, moon, runVars>>

\* html = build_html(...): an exception here would end the run with a traceback
MainBuild ==
    /\ pc = "main_build"
    /\ advisories' = get_advisories(zones)
    /\ html' = build_html(zones, synopsis, rain_pct,
                          moon[Len(moon)].result.name, moon[Len(moon)].result.illumination)
    /\ IF html'.raised
       THEN pc' = "exited" /\ exit_code' = 1
       ELSE pc' = "main_render" /\ exit_code' = exit_code
    /\ UNCHANGED <<zones, text, data, net, requests, synopsis, elapsed, moon,
                   rain_pct, output, temp, render>>

\* render_jpg up to the end of subprocess.run: the document is written to a
\* temporary file and the renderer leaves what it leaves
RunRenderer ==
    /\ pc = "main_render"
    /\ \E o \in RendererOutcomes :
          /\ render' = o
          /\ temp' = TempAfterRun(o)
    /\ pc' = "main_check"
    /\ UNCHANGED <<zones, advisories, text, data, net, requests, synopsis, elapsed, moon,
                   rain_pct, html, output, exit_code>>

\* render_jpg from the end of subprocess.run to its return or to the exception
\* that leaves it, the finally clause included; the imaging library raises
\* when it opens the raw image, before anything is saved
RenderJpg ==
    /\ pc = "main_check"
    /\ \E pil \in BOOLEAN, readable \in BOOLEAN :
          /\ output' = IF RenderError(render, pil, readable) # "" THEN output
                        ELSE OutputAfter(output, render, pil)
          /\ render' = [started |-> render.started, returncode |-> render.returncode,
                        raw |-> render.raw, pil |-> pil, before |-> output,
                        raised |-> RenderError(render, pil, readable),
                        success |-> RenderError(render, pil, readable) = "" /\ RawIsValid(render)]
          /\ temp' = TempAfterFinally(TempBeforeFinally(temp, render, pil))
    /\ pc' = "main_exit"
    /\ UNCHANGED <<zones, advisories, text, data, net, requests, synopsis, elapsed, moon,
                   rain_pct, html, exit_code>>

\* variant: the failure is only logged
ExitCode_LogOnly(success) == 0

\* if success: the script ends; else: sys.exit(1)
ExitCode(success) == IF success THEN 0 ELSE 1

\* an exception that left render_jpg ends the interpreter with code 1
MainExit ==
    /\ pc = "main_exit"
    /\ exit_code' = IF render.raised # "" THEN 1 ELSE ExitCode(render.success)
    /\ pc' = "exited"
    /\ UNCHANGED <<zones, advisories, text, data, net, requests, synopsis, elapsed, moon,
                   rain_pct, html, output, temp, render>>

NextMain ==
    \/ MainMoon
    \/ MainRain
    \/ MainSynopsis
    \/ MainFetch
    \/ MainParse
    \/ MainBuild
    \/ RunRenderer
    \/ RenderJpg
    \/ MainExit

SpecMain == InitMain /\ [][NextMain]_vars


-----------------------------------------------------------------------------
(* Claims about a run of main                                              *)

\* the steps of main before the document is rendered, in order
FetchSteps == <<"main_moon", "main_rain", "main_synopsis", "main_fetch", "main_parse", "main_build">>

\* position of the run: the steps before position i are done
StepNo ==
    IF \E i \in 1..Len(FetchSteps) : FetchSteps[i] = pc
    THEN CHOOSE i \in 1..Len(FetchSteps) : FetchSteps[i] = pc
    ELSE Len(FetchSteps) + 1

ForecastFailed == ~net[NWS_FORECAST_URL].ok \/ ~net[NWS_FORECAST_URL].parses
TextFailed(u) == ~net[u].ok

\* calls of fetch_url made by the steps done so far
CallsMade ==
    (IF StepNo > 2 THEN 1 ELSE 0)
    + (IF StepNo > 3 THEN (IF TextFailed(NWS_COMBINED_URL) \/ net[NWS_COMBINED_URL].body = "" THEN 2 ELSE 1) ELSE 0)
    + (IF StepNo > 4 THEN 4 ELSE 0)

\* C12: a request that fails in any way (connection, timeout, error status,
\* body that is not JSON) gives "" for a text request and None for a JSON
\* request, each call makes exactly one request, and the run goes on to the
\* next step with the empty value.
C12_FetchFailuresGiveEmptyOnce ==
    pc \in {FetchSteps[i] : i \in 1..Len(FetchSteps)} \cup {"main_render"} =>
        /\ \A u \in Urls \ {NWS_FORECAST_URL} : TextFailed(u) => fetch_url(net, u) = ""
        /\ ForecastFailed => fetch_json(net, NWS_FORECAST_URL) = None
        /\ Len(requests) = CallsMade
        /\ StepNo > 2 /\ ForecastFailed => rain_pct = "N/A"
        /\ StepNo > 3 /\ TextFailed(NWS_COMBINED_URL) /\ TextFailed(NWS_SYNOPSIS_URL) => synopsis = ""
        /\ StepNo > 4 => \A z \in ZoneNames : TextFailed(NWS_ZONES[z]) => text[z] = ""
        /\ exit_code = NotExited

\* every kind of failure at once, and the run has reached the render step
C12_Witness ==
    /\ pc = "main_render"
    /\ net[NWS_FORECAST_URL].failure = "timeout"
    /\ net[NWS_COMBINED_URL].failure = "network"
    /\ net[NWS_ZONES.north_pr].failure = "status"
    /\ net[NWS_ZONES.north_pr].body # ""
    /\ text.north_pr = ""
    /\ Len(requests) = 7

\* the forecast is served but is not JSON
C12_WitnessMalformed ==
    /\ pc = "main_synopsis"
    /\ net[NWS_FORECAST_URL].ok
    /\ ~net[NWS_FORECAST_URL].parses
    /\ rain_pct = "N/A"


C13_WitnessMissing ==
    /\ pc = "main_exit"
    /\ render.returncode = 0
    /\ ~render.raw.exists
    /\ ~render.success

\* the renderer reported no error and left an image one byte short: failure
C13_WitnessSmall ==
    /\ pc = "main_exit"
    /\ render.returncode = 0
    /\ render.raw.exists /\ render.raw.bytes = 4999
    /\ ~render.success


\* every request of the run failed or was answered with nothing usable
AllFetchesFailed ==
    /\ ForecastFailed
    /\ \A u \in Urls \ {NWS_FORECAST_URL} : TextFailed(u)

\* a new image is at the output path: the one saved from this run's raw image
ImageWritten ==
    /\ output.exists
    /\ output.image \in {"cropped", "raw"}
    /\ output.bytes = render.raw.bytes

\* C14: the run ends with code 0 exactly when the raw image passed the validity
\* check and the image was written to the output path, with a non-zero code
\* exactly when the check failed; no step before the render step ends the run
\* or sets an exit code, whatever the fetches returned.
C14_ExitCodeIsRenderOutcome ==
    /\ pc # "exited" => exit_code = NotExited
    /\ pc = "exited" =>
          /\ render # <<>>
          /\ exit_code \in {0, 1}
          /\ exit_code = 0 <=> (render.raw.exists /\ render.raw.bytes >= MinBytes /\ ImageWritten)
          /\ exit_code # 0 <=> ~(render.raw.exists /\ render.raw.bytes >= MinBytes)

\* C14 with the exceptions of the render step: the run ends with code 0
\* exactly when the raw image passed the validity check and the image was
\* written to the output path, with a non-zero code exactly when the check
\* failed or an exception left render_jpg; no step before the render step ends
\* the run or sets an exit code.
C14_ExitCodeIsRenderOutcomeOrError ==
    /\ pc # "exited" => exit_code = NotExited
    /\ pc = "exited" =>
          /\ render # <<>>
          /\ exit_code \in {0, 1}
          /\ exit_code = 0 <=> (render.raw.exists /\ render.raw.bytes >= MinBytes /\ ImageWritten)
          /\ exit_code # 0 <=>
                (~(render.raw.exists /\ render.raw.bytes >= MinBytes) \/ render.raised # "")

\* the raw image passed the check and the imaging library could not read it:
\* exit code 1
C14_WitnessImageError ==
    /\ pc = "exited"
    /\ render.raw.exists /\ render.raw.bytes >= MinBytes
    /\ render.raised = "image"
    /\ exit_code = 1

\* all fetches failed, the renderer worked: exit code 0
C14_Witness ==
    /\ pc = "exited"
    /\ AllFetchesFailed
    /\ exit_code = 0
    /\ ImageWritten

\* all fetches succeeded, the renderer left no valid image: exit code 1
C14_WitnessRenderFailed ==
    /\ pc = "exited"
    /\ ~ForecastFailed
    /\ \A u \in Urls \ {NWS_FORECAST_URL} : ~TextFailed(u) /\ net[u].body # ""
    /\ exit_code = 1


CheckFailed == ~(render.raw.exists /\ render.raw.bytes >= MinBytes)

\* C15: when the raw image fails the validity check, the file at the output
\* path is what it was before the run (absent, or the image of an earlier
\* run) and no temporary file of the run is left.
C15_FailedRenderLeavesOutputAlone ==
    pc \in {"main_exit", "exited"} /\ render # <<>> /\ CheckFailed =>
        /\ output = render.before
        /\ output \in {NoFile, StaleOutput}
        /\ temp = {}

\* the renderer left a raw image that is too small; the earlier image stays
C15_Witness ==
    /\ pc = "exited"
    /\ render.raw.exists /\ render.raw.bytes = MinBytes - 1
    /\ output = StaleOutput
    /\ exit_code = 1

\* the renderer left nothing and there was no earlier image: still none
C15_WitnessAbsent ==
    /\ pc = "exited"
    /\ ~render.raw.exists
    /\ output = NoFile
    /\ exit_code = 1


\* every bulletin request (the combined product and the four zones) gave ""
BulletinsEmpty == \A u \in Urls \ {NWS_FORECAST_URL} : fetch_url(net, u) = ""

\* C16: when every bulletin fetch gives the empty text and the renderer leaves
\* a valid raw image, the run ends with every zone record at its defaults, the
\* advisory list ["No Active Advisories"], an empty synopsis replaced in the
\* document by the fallback sentence, a new image at the output path and
\* exit code 0.
C16_EmptyBulletinsStillRender ==
    pc = "exited" /\ BulletinsEmpty /\ ~CheckFailed /\ render.raised = "" =>
        /\ \A z \in ZoneNames :
              zones[z] = [wind |-> "Check NWS", gusts |-> "", seas |-> "Check NWS",
                          wave_detail |-> "", advisory |-> "", precip |-> ""]
        /\ advisories = <<"No Active Advisories">>
        /\ html.tags = <<"No Active Advisories">>
        /\ synopsis = ""
        /\ html.synopsis = "Synopsis unavailable - visit weather.gov/sju for current marine forecast."
        /\ ImageWritten
        /\ exit_code = 0

\* the servers answer every bulletin request with an error or an empty body,
\* and the image is written
C16_Witness ==
    /\ pc = "exited"
    /\ BulletinsEmpty
    /\ net[NWS_ZONES.atlantic].ok
    /\ ~net[NWS_ZONES.north_pr].ok
    /\ ~CheckFailed
    /\ output = FileOf(250000, "cropped")
    /\ exit_code = 0


-----------------------------------------------------------------------------
(* Claims about the TODAY window of parse_zone (checked in SpecParse)       *)

WindowFields == {"wind", "gusts", "seas", "wave_detail", "precip"}

\* index just past the TODAY marker of a lower-cased bulletin, 0 without one:
\* the dotted marker if there is one, else TODAY on a line of its own
TodayMarkerEnd(low) ==
    IF Find(low, ".today...", 1) # 0 THEN Find(low, ".today...", 1) + 9
    ELSE TodayLineStart(low, 1)

\* the markers that open a later section: TONIGHT, dotted or (after an undotted
\* TODAY) on its own, and the named ones
LaterMarkers(low) ==
    IF Find(low, ".today...", 1) # 0
    THEN {".tonight", ".wednesday night", ".thursday night", ".friday"}
    ELSE {"tonight", ".wednesday night", ".thursday night", ".friday"}

\* the markers that end the search of the source: an undotted TODAY is ended
\* by TONIGHT only
EndingMarkers(low) ==
    IF Find(low, ".today...", 1) # 0
    THEN {".tonight", ".wednesday night", ".thursday night", ".friday"}
    ELSE {"tonight"}

\* index of the first later marker, 0 without one
NextMarker(low, markers) ==
    IF TodayMarkerEnd(low) = 0 THEN 0 ELSE FindAny(low, markers, TodayMarkerEnd(low))

\* the five fields as found in the collapsed text of t from lo to hi - 1
FieldsBetween(t, lo, hi) == ParseIn(t, Collapse(SubSeq(t, lo, hi - 1)))

\* index just past the first 1000 characters of t
FirstThousandEnd(t) == IF Len(t) > 1000 THEN 1001 ELSE Len(t) + 1

SameWindowFields(a, b) == \A f \in WindowFields : a[f] = b[f]

\* C18: with a TODAY marker followed by a later section marker (TONIGHT or a
\* named day-night marker) the five forecast fields are those found in the
\* collapsed text between the two markers, so a phrase only before the TODAY
\* marker or only after the next marker populates none of them; without a
\* TODAY marker they are those found in the first 1000 characters.
C18_FieldsFromTodayWindowOnly ==
    pc = "parsed" /\ text # "" =>
        /\ NextMarker(Lower(text), LaterMarkers(Lower(text))) # 0 =>
              SameWindowFields(data, FieldsBetween(text, TodayMarkerEnd(Lower(text)),
                                                   NextMarker(Lower(text), LaterMarkers(Lower(text)))))
        /\ TodayMarkerEnd(Lower(text)) = 0 =>
              SameWindowFields(data, FieldsBetween(text, 1, FirstThousandEnd(text)))

\* the same with the markers that end the search in the source
C18_FieldsFromSearchedWindowOnly ==
    pc = "parsed" /\ text # "" =>
        /\ NextMarker(Lower(text), EndingMarkers(Lower(text))) # 0 =>
              SameWindowFields(data, FieldsBetween(text, TodayMarkerEnd(Lower(text)),
                                                   NextMarker(Lower(text), EndingMarkers(Lower(text)))))
        /\ TodayMarkerEnd(Lower(text)) = 0 =>
              SameWindowFields(data, FieldsBetween(text, 1, FirstThousandEnd(text)))

\* an undotted TODAY, a named marker after it, and the wind of the later
\* section in the record
C18_WitnessLaterSection ==
    /\ pc = "parsed"
    /\ text = "TODAY\nSeas 3 feet.\n.FRIDAY...East winds 10 knots.\n"
    /\ data.wind = "East 10 kt"

\* phrases before the TODAY marker and after the next marker, none of them in
\* the record
C18_WitnessWindow ==
    /\ pc = "parsed"
    /\ text = "East winds 10 knots. Wave Detail: East 5 feet at 6 seconds.\n.TODAY...Seas 3 feet.\n.FRIDAY...Showers.\n"
    /\ data = [wind |-> "Check NWS", gusts |-> "", seas |-> "3 ft",
               wave_detail |-> "", advisory |-> "", precip |-> ""]

\* no TODAY marker and the wind phrase past the 1000th character
C18_WitnessFirstThousand ==
    /\ pc = "parsed"
    /\ text = "Seas 3 feet.\n" \o Filler \o "East winds 10 knots."
    /\ data.seas = "3 ft"
    /\ data.wind = "Check NWS"


-----------------------------------------------------------------------------
(* get_active_advisories of the variant that keeps a synopsis per zone.    *)
(* The pictographs that open its labels are written "~a" .. "~f", in the   *)
(* order of their code points, all above the ASCII letters:                *)
(*   ~a warning sign, ~b sailboat, ~c check mark, ~d cyclone, ~e dash,     *)
(*   ~f no-entry sign.                                                     *)

VariantZoneOrder == <<"synopsis", "atlantic", "north_pr", "east_pr", "caribbean">>
VariantZoneNames == {VariantZoneOrder[i] : i \in 1..Len(VariantZoneOrder)}

VariantRecord(a, s) ==
    [wind |-> "N/A", gusts |-> "", seas |-> "N/A", wave_detail |-> "",
     advisory |-> a, synopsis |-> s, precip |-> ""]

RipCurrents == "~a Rip Currents"
BreakingWaves == "~f Breaking Waves"
NoActiveAdvisories == "~c No Active Advisories"

\* advisories.add(z["advisory"]) for every zone that has one
RawAdvisories(zs) == {zs[z].advisory : z \in {y \in DOMAIN zs : zs[y].advisory # ""}}

\* hazards found in the synopsis of the atlantic record
Hazards(zs) ==
    (IF Contains(Lower(zs["atlantic"].synopsis), "rip current") THEN {RipCurrents} ELSE {})
    \cup
    (IF Contains(Lower(zs["atlantic"].synopsis), "breaking wave")
        \/ Contains(Lower(zs["atlantic"].synopsis), "hazardous surf")
     THEN {BreakingWaves} ELSE {})

\* the label appended for one raw advisory line
AdvisoryLabel(a) ==
    IF Contains(Lower(a), "small craft") THEN "~b Small Craft Advisory"
    ELSE IF Contains(Lower(a), "gale") THEN "~e Gale Warning"
    ELSE IF Contains(Lower(a), "storm") THEN "~d Storm Warning"
    ELSE a

RECURSIVE LabelsOf(_)
LabelsOf(raw) ==
    IF raw = <<>> THEN <<>> ELSE <<AdvisoryLabel(Head(raw))>> \o LabelsOf(Tail(raw))

get_active_advisories(zs) ==
    IF LabelsOf(SortedSeq(RawAdvisories(zs))) \o SortedSeq(Hazards(zs)) # <<>>
    THEN LabelsOf(SortedSeq(RawAdvisories(zs))) \o SortedSeq(Hazards(zs))
    ELSE <<NoActiveAdvisories>>

\* advisory lines as parse_zone of the variant stores them (title case)
VariantAdvisoryLines ==
    {"",
     "Small Craft Advisory In Effect Through Monday Afternoon",
     "Small Craft Advisory In Effect Until 6 Pm Ast",
     "Gale Warning In Effect",
     "Hurricane Force Wind Warning"}

VariantSynopses ==
    {"",
     "A surface high north of the area will maintain fresh trades.",
     "A northerly swell will bring life-threatening rip currents to north facing beaches.",
     "Large breaking waves and Rip Currents are expected. Hazardous surf through Friday."}

InitVariant ==
    /\ pc = "variant_start"
    /\ \E f \in [VariantZoneNames -> VariantAdvisoryLines], s \in VariantSynopses :
          zones = [z \in VariantZoneNames |->
                      VariantRecord(f[z], IF z = "atlantic" THEN s ELSE "")]
    /\ advisories = <<>>
    /\ text = ""
    /\ data = DefaultRecord
    /\ net = <<>>
    /\ requests = <<>>
    /\ synopsis = ""
    /\ elapsed = 0
    /\ moon = <<>>
    /\ NoRun

GetActiveAdvisories ==
    /\ pc = "variant_start"
    /\ advisories' = get_active_advisories(zones)
    /\ pc' = "variant_done"
    /\ UNCHANGED <<zones, text, data, net, requests, synopsis, elapsed, moon, runVars>>

NextVariant == GetActiveAdvisories

SpecVariant == InitVariant /\ [][NextVariant]_vars

\* C20: for every set of zone records the list returned by
\* get_active_advisories is never empty, holds no label twice and is in
\* ascending order, also with different raw lines of one category and with
\* hazard labels added from the synopsis.
C20_VariantNonEmptyDedupSorted ==
    pc = "variant_done" =>
        /\ Len(advisories) >= 1
        /\ \A i, j \in 1..Len(advisories) : i # j => advisories[i] # advisories[j]
        /\ \A i \in 1..(Len(advisories) - 1) : StrLess(advisories[i], advisories[i + 1])

\* the list is never empty
C20_VariantNonEmpty == pc = "variant_done" => Len(advisories) >= 1

\* two zones with different small craft lines: the label is listed twice
C20_WitnessDuplicate ==
    /\ pc = "variant_done"
    /\ zones["atlantic"].advisory = "Small Craft Advisory In Effect Through Monday Afternoon"
    /\ zones["north_pr"].advisory = "Small Craft Advisory In Effect Until 6 Pm Ast"
    /\ zones["synopsis"].advisory = "" /\ zones["east_pr"].advisory = "" /\ zones["caribbean"].advisory = ""
    /\ zones["atlantic"].synopsis = ""
    /\ advisories = <<"~b Small Craft Advisory", "~b Small Craft Advisory">>

\* a gale line and a small craft line: the labels are in the order of the raw
\* lines, not in their own
C20_WitnessUnsorted ==
    /\ pc = "variant_done"
    /\ advisories = <<"~e Gale Warning", "~b Small Craft Advisory">>


-----------------------------------------------------------------------------
(* The zone records of a run: parse_zone on the four bulletins, then       *)
(* get_advisories on the records                                           *)

\* bulletins with and without an advisory line, one of them with the dotless i
AdvisoryBulletins ==
    {"",
     "AMZ712-\n.TODAY...East winds 10 knots. Seas 3 feet.\n.TONIGHT...Seas 2 feet.\n",
     "...SMALL CRAFT ADVISORY IN EFFECT THROUGH MONDAY AFTERNOON...\n.TODAY...East winds 20 knots.\n",
     "gale warning in effect until 6 pm ast\n.TODAY...Seas 9 feet.\n",
     "...TROPICAL STORM WARNING IN EFFECT...\n",
     "HURRICANE FORCE WIND WARNING IN EFFECT\n",
     "HURR" \o DotlessI \o "CANE FORCE WIND WARNING IN EFFECT\n",
     "Dense fog advisory in effect. Rip current statement.\n"}

InitZones ==
    /\ pc = "zones_start"
    /\ text \in [ZoneNames -> AdvisoryBulletins]
    /\ zones = [z \in ZoneNames |-> DefaultRecord]
    /\ advisories = <<>>
    /\ data = DefaultRecord
    /\ net = <<>>
    /\ requests = <<>>
    /\ synopsis = ""
    /\ elapsed = 0
    /\ moon = <<>>
    /\ NoRun

\* zones = {name: parse_zone(text) for name, text in raw.items()}
ParseZones ==
    /\ pc = "zones_start"
    /\ zones' = [z \in ZoneNames |-> parse_zone(text[z])]
    /\ pc' = "adv_start"
    /\ UNCHANGED <<advisories, text, data, net, requests, synopsis, elapsed, moon, runVars>>

NextZones ==
    \/ ParseZones
    \/ GetAdvisories

SpecZones == InitZones /\ [][NextZones]_vars

ClosedLabels ==
    {"Small Craft Advisory", "Gale Warning", "Storm Warning",
     "Hurricane Force Wind Warning", "No Active Advisories"}

\* the words get_advisories looks for
HazardWords == {"small craft", "gale", "storm", "hurricane"}

HasHazardWord(adv) == \E w \in HazardWords : Contains(Lower(adv), w)

\* C21: with every zone record made by parse_zone, every stored advisory holds
\* one of the four hazard words, so every label get_advisories returns is one
\* of the five fixed labels and no advisory line is passed through verbatim.
C21_LabelsFromClosedSet ==
    /\ pc \in {"adv_start", "adv_done"} =>
          \A z \in ZoneNames : zones[z].advisory # "" => HasHazardWord(zones[z].advisory)
    /\ pc = "adv_done" =>
          \A i \in 1..Len(advisories) : advisories[i] \in ClosedLabels

\* the same for bulletins written in ASCII
C21_LabelsFromClosedSetAscii ==
    (\A z \in ZoneNames : ~Contains(text[z], DotlessI)) => C21_LabelsFromClosedSet

\* a hurricane force line spelled with the dotless i is found by the search,
\* stored, and returned as it is
C21_WitnessPassThrough ==
    /\ pc = "adv_done"
    /\ text.atlantic = "HURR" \o DotlessI \o "CANE FORCE WIND WARNING IN EFFECT\n"
    /\ zones.atlantic.advisory = "Hurr" \o DotlessI \o "cane Force Wind Warning In Effect"
    /\ \E i \in 1..Len(advisories) : advisories[i] = zones.atlantic.advisory

\* all four categories, from ASCII bulletins
C21_WitnessAllCategories ==
    /\ pc = "adv_done"
    /\ advisories = <<"Gale Warning", "Hurricane Force Wind Warning",
                      "Small Craft Advisory", "Storm Warning">>


-----------------------------------------------------------------------------
(* Claims about the requests of fetch_synopsis (checked in SpecSynopsis)    *)

\* what the request for the combined bulletin gave: "" when it failed
CombinedText == IF net[NWS_COMBINED_URL].ok THEN net[NWS_COMBINED_URL].body ELSE ""

\* C22: fetch_synopsis asks for the combined bulletin first and for the
\* secondary bulletin only when the first request gave the empty text; with a
\* non-empty combined bulletin that holds no synopsis section the result is ""
\* and the secondary bulletin is never requested.
C22_SecondaryOnlyAfterEmptyCombined ==
    pc = "syn_done" =>
        /\ requests[1] = NWS_COMBINED_URL
        /\ CombinedText # "" => requests = <<NWS_COMBINED_URL>>
        /\ CombinedText = "" => requests = <<NWS_COMBINED_URL, NWS_SYNOPSIS_URL>>
        /\ CombinedText # "" /\ ~Contains(Lower(CombinedText), "synopsis") =>
              synopsis = "" /\ text = CombinedText

\* the combined bulletin has no synopsis section, the secondary one has: the
\* result is empty and one request was made
C22_Witness ==
    /\ pc = "syn_done"
    /\ CombinedText = "AMZ711-012345-\nEast winds 10 knots. Seas 3 feet."
    /\ net[NWS_SYNOPSIS_URL].ok
    /\ SynopsisOf(net[NWS_SYNOPSIS_URL].body) # ""
    /\ requests = <<NWS_COMBINED_URL>>
    /\ synopsis = ""

\* the combined bulletin is served empty: the secondary one is asked and used
C22_WitnessSecondary ==
    /\ pc = "syn_done"
    /\ net[NWS_COMBINED_URL].ok /\ net[NWS_COMBINED_URL].body = ""
    /\ requests = <<NWS_COMBINED_URL, NWS_SYNOPSIS_URL>>
    /\ synopsis # ""


-----------------------------------------------------------------------------
(* Claims about the temporary files of render_jpg (checked in SpecMain)     *)

RenderLeft == pc \in {"main_exit", "exited"} /\ render # <<>>

C23_WitnessBefore ==
    /\ pc = "main_check"
    /\ temp = {"tmp_html", "raw_jpg"}

C23_WitnessCropped ==
    /\ RenderLeft
    /\ render.success /\ render.pil
    /\ output.image = "cropped"
    /\ temp = {}

\* success by moving the raw image
C23_WitnessMoved ==
    /\ RenderLeft
    /\ render.success /\ ~render.pil
    /\ output.image = "raw"
    /\ temp = {}

\* the imaging library raised
C23_WitnessImageError ==
    /\ RenderLeft
    /\ render.raised = "image"
    /\ temp = {}

====
